---------------------------- MODULE Spec2Model ----------------------------
(***************************************************************************)
(* Container layer of iconservice (iconscore/icon_container_db.py):        *)
(* key/value codec, prefix construction, ArrayDB, DictDB and VarDB over    *)
(* the underlying state store.                                             *)
(*                                                                         *)
(* Byte strings are sequences of 0..255.  A logical key or value is a      *)
(* record [kind, n, s]: n carries an integer or boolean, s carries the     *)
(* code points of a str or the bytes of a bytes/Address.                   *)
(***************************************************************************)
EXTENDS Integers, Sequences, FiniteSets, TLC

VARIABLES
    store,          \* the state store: final byte key -> byte value
    write_scheme,   \* the store's configured scheme for new keys: 1 or 2
    arr,            \* ArrayDB instances: var_key, value_type, _db, __size
    result,         \* outcome of the last completed operation
    hist,           \* per instance: values appended through it and not popped
    nAppend,        \* per instance: completed put() calls
    nPop,           \* per instance: pop() calls that removed an element
    mexp,           \* DictDB / VarDB location -> the value last set and not removed
    iter,           \* the generator of the iteration in progress over an ArrayDB
    probe,          \* input and output of a pure function under test
    context         \* the ICX ledger of the block: accounts, total supply, event logs

vars ==
    <<store, write_scheme, arr, result, hist, nAppend, nPop, mexp, iter, probe,
      context>>

seqVars == <<arr, hist, nAppend, nPop>>

kvVars == <<mexp>>

pureVars == <<probe>>

iterVars == <<iter>>

ctxVars == <<context>>

---------------------------------------------------------------------------
(* Bounds of the model.                                                    *)

MaxAppends == 3

NumInst == 2

---------------------------------------------------------------------------
(* Logical values.                                                         *)

IntV(n) == [kind |-> "int", n |-> n, s |-> <<>>]

BoolV(b) == [kind |-> "bool", n |-> IF b THEN 1 ELSE 0, s |-> <<>>]

StrV(s) == [kind |-> "str", n |-> 0, s |-> s]

BytesV(b) == [kind |-> "bytes", n |-> 0, s |-> b]

AddressV(b) == [kind |-> "Address", n |-> 0, s |-> b]

NoneV == [kind |-> "None", n |-> 0, s |-> <<>>]

\* a value of a kind the layer does not support (a float, a list, ...)
OtherV == [kind |-> "other", n |-> 0, s |-> <<>>]

\* the outcome of a decode that raises (bytes that are not valid for the type)
RaisedV == [kind |-> "raised", n |-> 0, s |-> <<>>]

\* isinstance(x, int): Python's bool is a subclass of int
IsInstanceInt(x) == x.kind \in {"int", "bool"}

---------------------------------------------------------------------------
(* utils.int_to_bytes / utils.bytes_to_int and str/Address conversions.    *)

\* byte_length_of_int that sizes a negative number by its absolute value
RECURSIVE byte_length_of_int_Abs(_)
byte_length_of_int_Abs(n) ==
    LET m == IF n < 0 THEN 0 - n ELSE n
    IN  IF m < 128 THEN 1 ELSE 1 + byte_length_of_int_Abs(m \div 256)

RECURSIVE byte_length_of_int(_)
byte_length_of_int(n) ==
    LET m == IF n < 0 THEN -(n + 1) ELSE n
    IN  IF m < 128 THEN 1 ELSE 1 + byte_length_of_int(m \div 256)

RECURSIVE to_bytes_signed(_, _)
to_bytes_signed(n, length) ==
    IF length = 0 THEN <<>>
    ELSE to_bytes_signed(n \div 256, length - 1) \o <<n % 256>>

int_to_bytes(n) == to_bytes_signed(n, byte_length_of_int(n))

RECURSIVE from_bytes_unsigned(_, _)
from_bytes_unsigned(acc, b) ==
    IF b = <<>> THEN acc
    ELSE from_bytes_unsigned(acc * 256 + Head(b), Tail(b))

bytes_to_int(b) ==
    IF b = <<>> THEN 0
    ELSE from_bytes_unsigned(IF b[1] >= 128 THEN b[1] - 256 ELSE b[1], Tail(b))

RECURSIVE str_encode(_)
str_encode(s) ==
    IF s = <<>> THEN <<>>
    ELSE LET cp == Head(s)
         IN  (IF cp < 128 THEN <<cp>>
              ELSE <<192 + (cp \div 64), 128 + (cp % 64)>>) \o str_encode(Tail(s))

\* bytes.decode(): <<-1>> stands for UnicodeDecodeError
RECURSIVE bytes_decode(_)
bytes_decode(b) ==
    IF b = <<>> THEN <<>>
    ELSE IF b[1] < 128
         THEN LET rest == bytes_decode(Tail(b))
              IN  IF rest = <<-1>> THEN rest ELSE <<b[1]>> \o rest
    ELSE IF b[1] >= 194 /\ b[1] < 224 /\ Len(b) >= 2 /\ b[2] >= 128 /\ b[2] < 192
         THEN LET rest == bytes_decode(Tail(Tail(b)))
              IN  IF rest = <<-1>> THEN rest
                  ELSE <<(b[1] - 192) * 64 + (b[2] - 128)>> \o rest
    ELSE <<-1>>

Address_to_bytes(a) == a.s

Address_from_bytes(b) == AddressV(b)

---------------------------------------------------------------------------
(* icon_container_db.py: module constants and key framing.                 *)

ARRAY_DB_ID == <<0>>

DICT_DB_ID == <<1>>

VAR_DB_ID == <<2>>

RECURSIVE rlp_get_bytes(_)
rlp_get_bytes(x) ==
    IF x = 0 THEN <<>>
    ELSE rlp_get_bytes(x \div 256) \o <<x % 256>>

\* rlp_encode_bytes that takes the long form from 55 bytes on
rlp_encode_bytes_Long55(b) ==
    LET blen == Len(b)
    IN  IF blen = 1 /\ b[1] < 128 THEN b
        ELSE IF blen < 55 THEN <<blen + 128>> \o b
        ELSE <<Len(rlp_get_bytes(blen)) + 128 + 55>> \o rlp_get_bytes(blen) \o b

\* rlp_encode_bytes that returns every single byte unchanged
rlp_encode_bytes_PassAll(b) ==
    LET blen == Len(b)
    IN  IF blen = 1 THEN b
        ELSE IF blen <= 55 THEN <<blen + 128>> \o b
        ELSE <<Len(rlp_get_bytes(blen)) + 128 + 55>> \o rlp_get_bytes(blen) \o b

\* int(x / 256) in rlp_get_bytes is x \div 256 for every length below 2^53
rlp_encode_bytes(b) ==
    LET blen == Len(b)
    IN  IF blen = 1 /\ b[1] < 128 THEN b
        ELSE IF blen <= 55 THEN <<blen + 128>> \o b
        ELSE LET len_bytes == rlp_get_bytes(blen)
             IN  <<Len(len_bytes) + 128 + 55>> \o len_bytes \o b

(* ContainerUtil.encode_key: [err, b]; err = "" when the key encodes.      *)
encode_key(key) ==
    IF key.kind = "None" THEN [err |-> "key is None", b |-> <<>>]
    ELSE IF IsInstanceInt(key) THEN [err |-> "", b |-> int_to_bytes(key.n)]
    ELSE IF key.kind = "str" THEN [err |-> "", b |-> str_encode(key.s)]
    ELSE IF key.kind = "Address" THEN [err |-> "", b |-> Address_to_bytes(key)]
    ELSE IF key.kind = "bytes" THEN [err |-> "", b |-> key.s]
    ELSE [err |-> "Unsupported key type", b |-> <<>>]

get_encoded_key_v1(key) == encode_key(key)

get_encoded_key_v2(key) ==
    LET bytes_key == encode_key(key)
    IN  [err |-> bytes_key.err,
         b |-> IF bytes_key.err = "" THEN rlp_encode_bytes(bytes_key.b) ELSE <<>>]

(* The pair [[v1 elements], [v2 elements]] handed to the store; each       *)
(* element list is kept as the concatenation the store forms from it.      *)
KeyPair(key) ==
    [err |-> get_encoded_key_v1(key).err,
     v1 |-> get_encoded_key_v1(key).b,
     v2 |-> get_encoded_key_v2(key).b]

(* ContainerUtil.encode_value                                              *)
encode_value(value) ==
    IF IsInstanceInt(value) THEN [err |-> "", b |-> int_to_bytes(value.n)]
    ELSE IF value.kind = "str" THEN [err |-> "", b |-> str_encode(value.s)]
    ELSE IF value.kind = "Address" THEN [err |-> "", b |-> Address_to_bytes(value)]
    ELSE IF value.kind = "bytes" THEN [err |-> "", b |-> value.s]
    ELSE [err |-> "Unsupported value type", b |-> <<>>]

get_default_value(value_type) ==
    IF value_type = "int" THEN IntV(0)
    ELSE IF value_type = "str" THEN StrV(<<>>)
    ELSE IF value_type = "bool" THEN BoolV(FALSE)
    ELSE NoneV

(* ContainerUtil.decode_object that reads an int as an unsigned number     *)
decode_object_Unsigned(got, value_type) ==
    IF ~got.found THEN get_default_value(value_type)
    ELSE IF value_type = "int" THEN IntV(from_bytes_unsigned(0, got.b))
    ELSE IF value_type = "str" THEN StrV(bytes_decode(got.b))
    ELSE IF value_type = "Address" THEN Address_from_bytes(got.b)
    ELSE IF value_type = "bool" THEN BoolV(from_bytes_unsigned(0, got.b) # 0)
    ELSE BytesV(got.b)

(* ContainerUtil.decode_object; got = [found, b] is the store's answer     *)
(* (found = FALSE is Python's None).                                       *)
decode_object(got, value_type) ==
    IF ~got.found THEN get_default_value(value_type)
    ELSE IF value_type = "int" THEN IntV(bytes_to_int(got.b))
    ELSE IF value_type = "str"
         THEN IF bytes_decode(got.b) = <<-1>> THEN RaisedV
              ELSE StrV(bytes_decode(got.b))
    ELSE IF value_type = "Address" THEN Address_from_bytes(got.b)
    ELSE IF value_type = "bool" THEN BoolV(bytes_to_int(got.b) # 0)
    ELSE IF value_type = "bytes" THEN BytesV(got.b)
    ELSE NoneV

---------------------------------------------------------------------------
(* The underlying store (database/db.py), as the container layer uses it:  *)
(* a handle carries one prefix per scheme and prepends it to every key;    *)
(* of the two final keys the first that exists is used, and a key that     *)
(* exists under neither is created under the configured write scheme.      *)

RootDB == [v1 |-> <<>>, v2 |-> <<>>, is_root |-> TRUE]

get_sub_db(db, prefix) ==
    [v1 |-> db.v1 \o prefix.v1, v2 |-> db.v2 \o prefix.v2, is_root |-> FALSE]

FinalKey(st, scheme, db, key) ==
    LET k1 == db.v1 \o key.v1
        k2 == db.v2 \o key.v2
    IN  IF k1 \in DOMAIN st THEN k1
        ELSE IF k2 \in DOMAIN st THEN k2
        ELSE IF scheme = 1 THEN k1 ELSE k2

db_get(st, db, key) ==
    LET k == FinalKey(st, 1, db, key)
    IN  IF k \in DOMAIN st THEN [found |-> TRUE, b |-> st[k]]
        ELSE [found |-> FALSE, b |-> <<>>]

db_put(st, scheme, db, key, value) ==
    LET k == FinalKey(st, scheme, db, key)
    IN  [x \in DOMAIN st \cup {k} |-> IF x = k THEN value ELSE st[x]]

db_delete(st, db, key) ==
    LET k == FinalKey(st, 1, db, key)
    IN  [x \in DOMAIN st \ {k} |-> st[x]]

EmptyStore == [x \in {} |-> <<>>]

---------------------------------------------------------------------------
(* ContainerUtil.create_db_prefix                                          *)

create_db_prefix(container_cls, var_key) ==
    LET k == KeyPair(var_key)
    IN  IF container_cls \notin {"ArrayDB", "DictDB"}
        THEN [err |-> "Unsupported container class", v1 |-> <<>>, v2 |-> <<>>]
        ELSE LET container_id == IF container_cls = "ArrayDB"
                                 THEN ARRAY_DB_ID ELSE DICT_DB_ID
             IN  [err |-> k.err,
                  v1 |-> IF k.err = "" THEN container_id \o k.v1 ELSE <<>>,
                  v2 |-> IF k.err = "" THEN container_id \o k.v2 ELSE <<>>]

---------------------------------------------------------------------------
(* ArrayDB                                                                 *)

\* ArrayDB.__SIZE_BYTE_KEY = [[get_encoded_key_v1('size')], [b'']]
SIZE_BYTE_KEY ==
    [err |-> "", v1 |-> get_encoded_key_v1(StrV(<<115, 105, 122, 101>>)).b, v2 |-> <<>>]

ArrayDB__get_size_from_db(st, db) ==
    decode_object(db_get(st, db, SIZE_BYTE_KEY), "int").n

NoArray ==
    [live |-> FALSE, var_key |-> NoneV, value_type |-> "int",
     db |-> RootDB, size |-> 0]

\* ArrayDB.__init__ that starts every instance at length 0
ArrayDB_init_NoRead(st, var_key, db, value_type) ==
    [live |-> TRUE, var_key |-> var_key, value_type |-> value_type,
     db |-> get_sub_db(db, create_db_prefix("ArrayDB", var_key)), size |-> 0]

\* ArrayDB.__init__ (var_key is one of the supported kinds)
ArrayDB_init(st, var_key, db, value_type) ==
    LET prefix == create_db_prefix("ArrayDB", var_key)
        sub == get_sub_db(db, prefix)
    IN  [live |-> TRUE, var_key |-> var_key, value_type |-> value_type,
         db |-> sub, size |-> ArrayDB__get_size_from_db(st, sub)]

\* ArrayDB.__put: [err, store]
ArrayDB__put(st, scheme, a, index, value) ==
    LET key == KeyPair(IntV(index))
        ev == encode_value(value)
    IN  IF ev.err # "" THEN [err |-> ev.err, store |-> st]
        ELSE [err |-> "", store |-> db_put(st, scheme, a.db, key, ev.b)]

\* ArrayDB.__set_size: [store, size]
ArrayDB__set_size(st, scheme, a, size) ==
    [store |-> db_put(st, scheme, a.db, SIZE_BYTE_KEY, encode_value(IntV(size)).b),
     size |-> size]

\* ArrayDB._get with the range check run on the index as given
ArrayDB_get_NoNormalise(st, db, size, index, value_type) ==
    IF ~IsInstanceInt(index)
    THEN [err |-> "Invalid index type: not an integer", ret |-> NoneV]
    ELSE IF 0 <= index.n /\ index.n < size
         THEN [err |-> "",
               ret |-> decode_object(db_get(st, db, KeyPair(IntV(index.n))), value_type)]
         ELSE [err |-> "ArrayDB out of index", ret |-> NoneV]

\* ArrayDB._get: [err, ret]
ArrayDB_get(st, db, size, index, value_type) ==
    IF ~IsInstanceInt(index)
    THEN [err |-> "Invalid index type: not an integer", ret |-> NoneV]
    ELSE LET i == IF index.n < 0 THEN index.n + size ELSE index.n
         IN  IF 0 <= i /\ i < size
             THEN [err |-> "",
                   ret |-> decode_object(db_get(st, db, KeyPair(IntV(i))), value_type)]
             ELSE [err |-> "ArrayDB out of index", ret |-> NoneV]

\* ArrayDB.put: [err, store, size]
ArrayDB_put(st, scheme, a, value) ==
    LET size == a.size
        w == ArrayDB__put(st, scheme, a, size, value)
    IN  IF w.err # "" THEN [err |-> w.err, store |-> st, size |-> a.size]
        ELSE LET s == ArrayDB__set_size(w.store, scheme, a, size + 1)
             IN  [err |-> "", store |-> s.store, size |-> s.size]

\* ArrayDB.pop that returns the last value and forgets to shrink the array
ArrayDB_pop_KeepSize(st, scheme, a) ==
    IF a.size = 0
    THEN [err |-> "", store |-> st, size |-> a.size, ret |-> NoneV]
    ELSE [err |-> "", store |-> db_delete(st, a.db, KeyPair(IntV(a.size - 1))),
          size |-> a.size,
          ret |-> ArrayDB_get(st, a.db, a.size, IntV(a.size - 1), a.value_type).ret]

\* ArrayDB.pop that shrinks the array and leaves the popped element's key
ArrayDB_pop_NoDelete(st, scheme, a) ==
    IF a.size = 0
    THEN [err |-> "", store |-> st, size |-> a.size, ret |-> NoneV]
    ELSE LET s == ArrayDB__set_size(st, scheme, a, a.size - 1)
         IN  [err |-> "", store |-> s.store, size |-> s.size,
              ret |-> ArrayDB_get(st, a.db, a.size, IntV(a.size - 1), a.value_type).ret]

\* ArrayDB.pop that persists the length 0 when the array is empty
ArrayDB_pop_WriteZero(st, scheme, a) ==
    IF a.size = 0
    THEN [err |-> "", store |-> ArrayDB__set_size(st, scheme, a, 0).store,
          size |-> 0, ret |-> NoneV]
    ELSE LET s == ArrayDB__set_size(db_delete(st, a.db, KeyPair(IntV(a.size - 1))),
                                    scheme, a, a.size - 1)
         IN  [err |-> "", store |-> s.store, size |-> s.size,
              ret |-> ArrayDB_get(st, a.db, a.size, IntV(a.size - 1), a.value_type).ret]

\* ArrayDB.pop: [err, store, size, ret]
ArrayDB_pop(st, scheme, a) ==
    LET size == a.size
    IN  IF size = 0
        THEN [err |-> "", store |-> st, size |-> a.size, ret |-> NoneV]
        ELSE LET index == size - 1
                 last_val == ArrayDB_get(st, a.db, a.size, IntV(index), a.value_type)
                 d == db_delete(st, a.db, KeyPair(IntV(index)))
                 s == ArrayDB__set_size(d, scheme, a, index)
             IN  IF last_val.err # "" \/ last_val.ret = RaisedV
                 THEN [err |-> "raised", store |-> st, size |-> a.size, ret |-> NoneV]
                 ELSE [err |-> "", store |-> s.store, size |-> s.size,
                       ret |-> last_val.ret]

\* ArrayDB.__setitem__ with the range check run on the index as given
ArrayDB_setitem_NoNormalise(st, scheme, a, index, value) ==
    IF ~IsInstanceInt(index)
    THEN [err |-> "Invalid index type: not an integer", store |-> st]
    ELSE IF 0 <= index.n /\ index.n < a.size
         THEN ArrayDB__put(st, scheme, a, index.n, value)
         ELSE [err |-> "ArrayDB out of index", store |-> st]

\* ArrayDB.__setitem__: [err, store]
ArrayDB_setitem(st, scheme, a, index, value) ==
    IF ~IsInstanceInt(index)
    THEN [err |-> "Invalid index type: not an integer", store |-> st]
    ELSE LET size == a.size
             i == IF index.n < 0 THEN index.n + size ELSE index.n
         IN  IF 0 <= i /\ i < size
             THEN ArrayDB__put(st, scheme, a, i, value)
             ELSE [err |-> "ArrayDB out of index", store |-> st]

\* ArrayDB.__len__
ArrayDB_len(a) == a.size

\* ArrayDB.__iter__: the generator object, its arguments bound at the call
ArrayDB_iter(a) ==
    [db |-> a.db, size |-> a.size, value_type |-> a.value_type, index |-> 0]

\* one resumption of a generator that reads the persisted length every time
ArrayDB_get_generator_Reread(st, g) ==
    IF g.index < ArrayDB__get_size_from_db(st, g.db)
    THEN LET r == ArrayDB_get(st, g.db, g.size, IntV(g.index), g.value_type)
         IN  [stop |-> FALSE, err |-> r.err, ret |-> r.ret,
              g |-> [g EXCEPT !.index = g.index + 1]]
    ELSE [stop |-> TRUE, err |-> "", ret |-> NoneV, g |-> g]

\* ArrayDB._get_generator, one resumption: the next index of range(size) is
\* read with _get, or the range is exhausted (StopIteration)
ArrayDB_get_generator(st, g) ==
    IF g.index < g.size
    THEN LET r == ArrayDB_get(st, g.db, g.size, IntV(g.index), g.value_type)
         IN  [stop |-> FALSE, err |-> r.err, ret |-> r.ret,
              g |-> [g EXCEPT !.index = g.index + 1]]
    ELSE [stop |-> TRUE, err |-> "", ret |-> NoneV, g |-> g]


---------------------------------------------------------------------------
(* DictDB                                                                  *)

\* DictDB.__init__: [err, db, value_type, depth]
DictDB_init(var_key, db, value_type, depth) ==
    LET prefix == IF db.is_root THEN create_db_prefix("DictDB", var_key)
                  ELSE KeyPair(var_key)
    IN  [err |-> prefix.err, db |-> get_sub_db(db, prefix),
         value_type |-> value_type, depth |-> depth]

\* DictDB.__setitem__ without the depth check
DictDB_setitem_AnyDepth(st, scheme, d, key, value) ==
    LET encoded_key == KeyPair(key)
        encoded_value == encode_value(value)
    IN  IF encoded_key.err # "" THEN [err |-> encoded_key.err, store |-> st]
        ELSE IF encoded_value.err # "" THEN [err |-> encoded_value.err, store |-> st]
        ELSE [err |-> "", store |-> db_put(st, scheme, d.db, encoded_key, encoded_value.b)]

\* DictDB.__setitem__: [err, store]
DictDB_setitem(st, scheme, d, key, value) ==
    IF d.depth # 1 THEN [err |-> "DictDB depth mismatch", store |-> st]
    ELSE LET encoded_key == KeyPair(key)
             encoded_value == encode_value(value)
         IN  IF encoded_key.err # "" THEN [err |-> encoded_key.err, store |-> st]
             ELSE IF encoded_value.err # "" THEN [err |-> encoded_value.err, store |-> st]
             ELSE [err |-> "",
                   store |-> db_put(st, scheme, d.db, encoded_key, encoded_value.b)]

\* DictDB.__getitem__ that offers the store the V2 key alone
DictDB_getitem_V2Only(st, d, key) ==
    LET k == KeyPair(key)
    IN  IF k.err # "" THEN [err |-> k.err, ret |-> NoneV]
        ELSE [err |-> "",
              ret |-> decode_object(db_get(st, d.db, [v1 |-> k.v2, v2 |-> k.v2]),
                                    d.value_type)]

\* DictDB.__getitem__ when depth == 1: [err, ret]
DictDB_getitem(st, d, key) ==
    LET encoded_key == KeyPair(key)
    IN  IF encoded_key.err # "" THEN [err |-> encoded_key.err, ret |-> NoneV]
        ELSE [err |-> "",
              ret |-> decode_object(db_get(st, d.db, encoded_key), d.value_type)]

\* DictDB.__getitem__ when depth > 1 that hands on its own depth
DictDB_getitem_sub_KeepDepth(d, key) == DictDB_init(key, d.db, d.value_type, d.depth)

\* DictDB.__getitem__ when depth > 1: the DictDB of depth - 1 scoped to key
DictDB_getitem_sub(d, key) == DictDB_init(key, d.db, d.value_type, d.depth - 1)

\* DictDB.__remove (remove and __delitem__): [err, store]
DictDB_remove(st, d, key) ==
    IF d.depth # 1 THEN [err |-> "DictDB depth mismatch", store |-> st]
    ELSE LET encoded_key == KeyPair(key)
         IN  IF encoded_key.err # "" THEN [err |-> encoded_key.err, store |-> st]
             ELSE [err |-> "", store |-> db_delete(st, d.db, encoded_key)]

\* DictDB.__contains__ (key is one of the supported kinds)
DictDB_contains(st, d, key) == db_get(st, d.db, KeyPair(key)).found

---------------------------------------------------------------------------
(* VarDB                                                                   *)

\* VarDB.__init__: [err, db, var_byte_key, value_type]
VarDB_init(var_key, db, value_type) ==
    [err |-> KeyPair(var_key).err,
     db |-> get_sub_db(db, [v1 |-> VAR_DB_ID, v2 |-> VAR_DB_ID]),
     var_byte_key |-> KeyPair(var_key),
     value_type |-> value_type]

\* VarDB.set: [err, store]
VarDB_set(st, scheme, v, value) ==
    LET byte_value == encode_value(value)
    IN  IF byte_value.err # "" THEN [err |-> byte_value.err, store |-> st]
        ELSE [err |-> "", store |-> db_put(st, scheme, v.db, v.var_byte_key, byte_value.b)]

\* VarDB.get
VarDB_get(st, v) == decode_object(db_get(st, v.db, v.var_byte_key), v.value_type)

\* VarDB.remove
VarDB_remove(st, v) == db_delete(st, v.db, v.var_byte_key)

---------------------------------------------------------------------------
(* Inputs offered to the operations.                                       *)

Inst == 1..NumInst

Values(value_type) ==
    IF value_type = "int" THEN {IntV(-1), IntV(300)}
    ELSE IF value_type = "str" THEN {StrV(<<>>), StrV(<<233, 98>>)}
    ELSE IF value_type = "bool" THEN {BoolV(TRUE), BoolV(FALSE)}
    ELSE {BytesV(<<>>), BytesV(<<255, 0>>)}

\* what a caller may pass as a value: values of the declared type, or None
PutValues(value_type) == Values(value_type) \cup {NoneV}

\* what a caller may pass as an index
Indexes ==
    {IntV(k) : k \in (0 - (MaxAppends + 1))..(MaxAppends + 1)}
        \cup {BoolV(TRUE), StrV(<<48>>), NoneV, BytesV(<<0>>)}

\* (var_key, value_type) of the ArrayDB under test
SeqConfigs ==
    {<<IntV(1), "int">>, <<StrV(<<97, 98>>), "str">>, <<BytesV(<<>>), "bool">>,
     <<IntV(128), "bytes">>}

NoResult ==
    [op |-> "", inst |-> 0, path |-> <<>>, arg |-> NoneV, len0 |-> 0,
     ret |-> NoneV, err |-> ""]

---------------------------------------------------------------------------
(* Operations on ArrayDB instance i.                                       *)

\* array.put(v)
Put(i, v) ==
    /\ arr[i].live
    /\ nAppend[i] < MaxAppends
    /\ LET r == ArrayDB_put(store, write_scheme, arr[i], v)
       IN  /\ store' = r.store
           /\ arr' = [arr EXCEPT ![i].size = r.size]
           /\ result' = [op |-> "put", inst |-> i, path |-> <<>>, arg |-> v,
                         len0 |-> arr[i].size, ret |-> NoneV, err |-> r.err]
           /\ hist' = IF r.err = "" THEN [hist EXCEPT ![i] = Append(@, v)] ELSE hist
           /\ nAppend' = IF r.err = "" THEN [nAppend EXCEPT ![i] = @ + 1] ELSE nAppend
    /\ UNCHANGED <<write_scheme, nPop, kvVars, pureVars, iterVars, ctxVars>>

\* array.pop()
Pop(i) ==
    /\ arr[i].live
    /\ LET r == ArrayDB_pop(store, write_scheme, arr[i])
           removed == r.err = "" /\ arr[i].size > 0
       IN  /\ store' = r.store
           /\ arr' = [arr EXCEPT ![i].size = r.size]
           /\ result' = [op |-> "pop", inst |-> i, path |-> <<>>, arg |-> NoneV,
                         len0 |-> arr[i].size, ret |-> r.ret, err |-> r.err]
           /\ hist' = IF removed /\ hist[i] # <<>>
                      THEN [hist EXCEPT ![i] = SubSeq(@, 1, Len(@) - 1)] ELSE hist
           /\ nPop' = IF removed THEN [nPop EXCEPT ![i] = @ + 1] ELSE nPop
    /\ UNCHANGED <<write_scheme, nAppend, kvVars, pureVars, iterVars, ctxVars>>

\* array.get(idx) / array[idx]
Get(i, idx) ==
    /\ arr[i].live
    /\ LET r == ArrayDB_get(store, arr[i].db, arr[i].size, idx, arr[i].value_type)
       IN  result' = [op |-> "get", inst |-> i, path |-> <<>>, arg |-> idx,
                      len0 |-> arr[i].size, ret |-> r.ret, err |-> r.err]
    /\ UNCHANGED <<store, write_scheme, seqVars, kvVars, pureVars, iterVars, ctxVars>>

\* array[idx] = v
SetItem(i, idx, v) ==
    /\ arr[i].live
    /\ LET r == ArrayDB_setitem(store, write_scheme, arr[i], idx, v)
           k == IF idx.n < 0 THEN idx.n + arr[i].size ELSE idx.n
       IN  /\ store' = r.store
           /\ result' = [op |-> "set", inst |-> i, path |-> <<>>, arg |-> idx,
                         len0 |-> arr[i].size, ret |-> v, err |-> r.err]
           /\ hist' = IF r.err = "" /\ k + 1 \in DOMAIN hist[i]
                      THEN [hist EXCEPT ![i][k + 1] = v] ELSE hist
    /\ UNCHANGED <<write_scheme, arr, nAppend, nPop, kvVars, pureVars, iterVars, ctxVars>>

\* ArrayDB(k, db, t) bound to instance slot i
Construct(i, k, t) ==
    /\ arr' = [arr EXCEPT ![i] = ArrayDB_init(store, k, RootDB, t)]
    /\ result' = [op |-> "init", inst |-> i, path |-> <<>>, arg |-> k, len0 |-> 0,
                  ret |-> IntV(ArrayDB_init(store, k, RootDB, t).size), err |-> ""]
    /\ UNCHANGED <<store, write_scheme, hist, nAppend, nPop, kvVars, pureVars, iterVars, ctxVars>>

\* iter(array): a generator is created; a caller holds one at a time and
\* takes a new one once the previous is exhausted
IterStart(i) ==
    /\ arr[i].live
    /\ ~iter.live \/ iter.done
    /\ iter' = [live |-> TRUE, done |-> FALSE, inst |-> i, len0 |-> Len(hist[i]),
                err |-> "", out |-> <<>>, g |-> ArrayDB_iter(arr[i])]
    /\ result' = [op |-> "iter", inst |-> i, path |-> <<>>, arg |-> NoneV,
                  len0 |-> arr[i].size, ret |-> NoneV, err |-> ""]
    /\ UNCHANGED <<store, write_scheme, seqVars, kvVars, pureVars, ctxVars>>

\* next(generator): an item is yielded, or the generator ends
IterNext ==
    /\ iter.live
    /\ ~iter.done
    /\ LET r == ArrayDB_get_generator(store, iter.g)
       IN  /\ iter' = [iter EXCEPT
                          !.g = r.g,
                          !.done = r.stop \/ r.err # "",
                          !.err = r.err,
                          !.out = IF r.stop \/ r.err # "" THEN @ ELSE Append(@, r.ret)]
           /\ result' = [op |-> "next", inst |-> iter.inst, path |-> <<>>,
                         arg |-> IntV(iter.g.index),
                         len0 |-> iter.g.size, ret |-> r.ret,
                         err |-> IF r.stop THEN "StopIteration" ELSE r.err]
    /\ UNCHANGED <<store, write_scheme, seqVars, kvVars, pureVars, ctxVars>>

---------------------------------------------------------------------------
(* Operations on DictDB and VarDB.  Neither class keeps state of its own,  *)
(* so each operation constructs its instance: DictDB(var_key, db, t,       *)
(* depth)[path[1]]...[path[n]] and VarDB(var_key, db, t).                  *)

\* a logical location: a VarDB, or the entry of a DictDB at a key path
Loc(c, var_key, path, t) == [c |-> c, var_key |-> var_key, path |-> path, t |-> t]

Front(path) == SubSeq(path, 1, Len(path) - 1)

Last(path) == path[Len(path)]

\* d[keys[1]]...[keys[n]] on DictDB d of depth > n
RECURSIVE Navigate(_, _)
Navigate(d, keys) ==
    IF keys = <<>> THEN d
    ELSE Navigate(DictDB_getitem_sub(d, Head(keys)), Tail(keys))

\* the DictDB on which the last key of path is looked up
LeafDict(var_key, depth, path, t) ==
    Navigate(DictDB_init(var_key, RootDB, t, depth), Front(path))

\* the value a caller reads at a location
ReadLoc(st, loc) ==
    IF loc.c = "var" THEN VarDB_get(st, VarDB_init(loc.var_key, RootDB, loc.t))
    ELSE DictDB_getitem(st, LeafDict(loc.var_key, Len(loc.path), loc.path, loc.t),
                        Last(loc.path)).ret

\* the locations other than loc, with their expected values
Without(f, loc) == [x \in DOMAIN f \ {loc} |-> f[x]]

With(f, loc, v) == [x \in DOMAIN f \cup {loc} |-> IF x = loc THEN v ELSE f[x]]

\* DictDB(var_key, db, t, depth)[path[1]]...[path[n]] = v
DictSet(var_key, depth, path, v, t) ==
    /\ Len(path) >= 1
    /\ Len(path) <= depth
    /\ LET r == DictDB_setitem(store, write_scheme,
                               LeafDict(var_key, depth, path, t), Last(path), v)
       IN  /\ store' = r.store
           /\ result' = [op |-> "dict_set", inst |-> 0, path |-> path, arg |-> Last(path),
                         len0 |-> depth, ret |-> v, err |-> r.err]
           /\ mexp' = IF r.err = "" THEN With(mexp, Loc("dict", var_key, path, t), v)
                      ELSE mexp
    /\ UNCHANGED <<write_scheme, seqVars, pureVars, iterVars, ctxVars>>

\* del DictDB(var_key, db, t, depth)[path[1]]...[path[n]], and remove()
DictRemove(var_key, depth, path, t) ==
    /\ Len(path) >= 1
    /\ Len(path) <= depth
    /\ LET r == DictDB_remove(store, LeafDict(var_key, depth, path, t), Last(path))
       IN  /\ store' = r.store
           /\ result' = [op |-> "dict_remove", inst |-> 0, path |-> path,
                         arg |-> Last(path),
                         len0 |-> depth, ret |-> NoneV, err |-> r.err]
           /\ mexp' = IF r.err = "" THEN Without(mexp, Loc("dict", var_key, path, t))
                      ELSE mexp
    /\ UNCHANGED <<write_scheme, seqVars, pureVars, iterVars, ctxVars>>

\* a DictDB as a returned object: its depth and its region
MapV(d) == [kind |-> "DictDB", n |-> d.depth, s |-> d.db.v1 \o <<-1>> \o d.db.v2]

\* DictDB(var_key, db, t, depth)[path[1]]...[path[n]] read: a value when the
\* last lookup is on a DictDB of depth 1, a DictDB otherwise
DictGet(var_key, depth, path, t) ==
    /\ Len(path) >= 1
    /\ Len(path) <= depth
    /\ LET d == LeafDict(var_key, depth, path, t)
           r == IF d.depth = 1 THEN DictDB_getitem(store, d, Last(path))
                ELSE [err |-> DictDB_getitem_sub(d, Last(path)).err,
                      ret |-> MapV(DictDB_getitem_sub(d, Last(path)))]
       IN  result' = [op |-> "dict_get", inst |-> 0, path |-> path, arg |-> Last(path),
                      len0 |-> depth, ret |-> r.ret, err |-> r.err]
    /\ UNCHANGED <<store, write_scheme, seqVars, kvVars, pureVars, iterVars, ctxVars>>

\* VarDB(var_key, db, t).set(v)
VarSet(var_key, v, t) ==
    /\ LET r == VarDB_set(store, write_scheme, VarDB_init(var_key, RootDB, t), v)
       IN  /\ store' = r.store
           /\ result' = [op |-> "var_set", inst |-> 0, path |-> <<>>, arg |-> var_key,
                         len0 |-> 0, ret |-> v, err |-> r.err]
           /\ mexp' = IF r.err = "" THEN With(mexp, Loc("var", var_key, <<>>, t), v)
                      ELSE mexp
    /\ UNCHANGED <<write_scheme, seqVars, pureVars, iterVars, ctxVars>>

\* VarDB(var_key, db, t).remove()
VarRemove(var_key, t) ==
    /\ store' = VarDB_remove(store, VarDB_init(var_key, RootDB, t))
    /\ result' = [op |-> "var_remove", inst |-> 0, path |-> <<>>, arg |-> var_key,
                  len0 |-> 0, ret |-> NoneV, err |-> ""]
    /\ mexp' = Without(mexp, Loc("var", var_key, <<>>, t))
    /\ UNCHANGED <<write_scheme, seqVars, pureVars, iterVars, ctxVars>>

\* VarDB(var_key, db, t).get()
VarGet(var_key, t) ==
    /\ result' = [op |-> "var_get", inst |-> 0, path |-> <<>>, arg |-> var_key,
                  len0 |-> 0, ret |-> VarDB_get(store, VarDB_init(var_key, RootDB, t)),
                  err |-> ""]
    /\ UNCHANGED <<store, write_scheme, seqVars, kvVars, pureVars, iterVars, ctxVars>>

\* the store is switched from writing new keys under V1 to V2
SwitchScheme ==
    /\ write_scheme = 1
    /\ write_scheme' = 2
    /\ result' = [op |-> "switch", inst |-> 0, path |-> <<>>, arg |-> NoneV,
                  len0 |-> 0, ret |-> NoneV, err |-> ""]
    /\ UNCHANGED <<store, seqVars, kvVars, pureVars, iterVars, ctxVars>>

\* no iteration started: g is the generator, len0 the length of the array
\* when it was created, out the items yielded so far
NoIter ==
    [live |-> FALSE, done |-> FALSE, inst |-> 0, len0 |-> 0, err |-> "", out |-> <<>>,
     g |-> [db |-> RootDB, size |-> 0, value_type |-> "int", index |-> 0]]

NoProbe == [fn |-> "", key |-> NoneV, index |-> 0, done |-> FALSE, out |-> <<>>]

\* no ledger in use
NoContext == [accounts |-> <<>>, total_supply |-> 0, event_logs |-> 0]

\* every variable but the store's scheme and the ArrayDB slots, at its start
InitRest ==
    /\ store = EmptyStore
    /\ result = NoResult
    /\ hist = [i \in Inst |-> <<>>]
    /\ nAppend = [i \in Inst |-> 0]
    /\ nPop = [i \in Inst |-> 0]
    /\ mexp = [x \in {} |-> NoneV]
    /\ iter = NoIter
    /\ context = NoContext
    /\ probe = NoProbe

---------------------------------------------------------------------------
(* One ArrayDB instance, constructed on an empty store.                    *)

InitSeq ==
    /\ write_scheme \in {1, 2}
    /\ \E c \in SeqConfigs :
           arr = [i \in Inst |-> IF i = 1 THEN ArrayDB_init(EmptyStore, c[1], RootDB, c[2])
                                 ELSE NoArray]
    /\ InitRest

NextSeq ==
    \/ \E v \in PutValues(arr[1].value_type) : Put(1, v)
    \/ Pop(1)
    \/ \E idx \in Indexes : Get(1, idx)
    \/ \E idx \in Indexes, v \in PutValues(arr[1].value_type) : SetItem(1, idx, v)

SpecSeq == InitSeq /\ [][NextSeq]_vars


---------------------------------------------------------------------------
(* The store keys of an ArrayDB: its length key and its element keys.      *)

MaxProbeIndex == 60

\* the integer whose int_to_bytes is the V1 length key
SizeKeyAsInt == bytes_to_int(SIZE_BYTE_KEY.v1)

ProbeIndexes ==
    (0..MaxProbeIndex) \cup {127, 128, 255, 256, 32767, 32768, SizeKeyAsInt}

ProbeVarKeys == {IntV(1), StrV(<<97, 98>>), BytesV(<<>>), BytesV(<<129>>)}

\* the final keys of the length and of element index under each scheme, as
\* ArrayDB.__set_size and ArrayDB.__put hand them to the store
ArrayKeys(var_key, index) ==
    LET a == ArrayDB_init(EmptyStore, var_key, RootDB, "int")
    IN  [size_v1 |-> a.db.v1 \o SIZE_BYTE_KEY.v1,
         size_v2 |-> a.db.v2 \o SIZE_BYTE_KEY.v2,
         elem_v1 |-> a.db.v1 \o KeyPair(IntV(index)).v1,
         elem_v2 |-> a.db.v2 \o KeyPair(IntV(index)).v2]

ProbeArrayKeys ==
    /\ probe.fn = "ArrayKeys"
    /\ ~probe.done
    /\ probe' = [probe EXCEPT !.done = TRUE,
                               !.out = ArrayKeys(probe.key, probe.index)]
    /\ UNCHANGED <<store, write_scheme, result, seqVars, kvVars, iterVars, ctxVars>>

InitKeys ==
    /\ store = EmptyStore
    /\ write_scheme = 1
    /\ arr = [i \in Inst |-> NoArray]
    /\ result = NoResult
    /\ hist = [i \in Inst |-> <<>>]
    /\ nAppend = [i \in Inst |-> 0]
    /\ nPop = [i \in Inst |-> 0]
    /\ mexp = [x \in {} |-> NoneV]
    /\ iter = NoIter
    /\ context = NoContext
    /\ \E k \in ProbeVarKeys, i \in ProbeIndexes :
           probe = [fn |-> "ArrayKeys", key |-> k, index |-> i, done |-> FALSE,
                    out |-> <<>>]

NextKeys == ProbeArrayKeys

SpecKeys == InitKeys /\ [][NextKeys]_vars

---------------------------------------------------------------------------
(* Several ArrayDB instances over one store, each constructed once.        *)

AliasVarKeys == {IntV(1), BytesV(<<1>>)}

InitAlias ==
    /\ write_scheme = 1
    /\ arr = [i \in Inst |-> NoArray]
    /\ InitRest

NextAlias ==
    \E i \in Inst :
        \/ \E k \in AliasVarKeys : ~arr[i].live /\ Construct(i, k, "int")
        \/ \E v \in Values("int") :
               nAppend[1] + nAppend[2] < MaxAppends /\ Put(i, v)
        \/ Pop(i)
        \/ \E v \in Values("int") : SetItem(i, IntV(-1), v)

SpecAlias == InitAlias /\ [][NextAlias]_vars

---------------------------------------------------------------------------
(* An ArrayDB, a DictDB and VarDBs side by side under one root store.      *)

\* the var_key of the ArrayDB and of the DictDB: the region is the tag alone
KindsVarKey == BytesV(<<>>)

\* keys of DictDB entries; their encodings start with the three tags
KindsDictKeys == {IntV(2)}

\* keys of the VarDBs
KindsVarKeys == {IntV(1), BytesV(<<1>>)}

KindsLocs ==
    {Loc("dict", KindsVarKey, <<k>>, "int") : k \in KindsDictKeys}
        \cup {Loc("var", k, <<>>, "int") : k \in KindsVarKeys}

InitKinds ==
    /\ write_scheme \in {1, 2}
    /\ arr = [i \in Inst |-> IF i = 1
                             THEN ArrayDB_init(EmptyStore, KindsVarKey, RootDB, "int")
                             ELSE NoArray]
    /\ InitRest

NextKinds ==
    \/ Put(1, IntV(300))
    \/ Pop(1)
    \/ \E k \in KindsDictKeys, v \in Values("int") :
           DictSet(KindsVarKey, 1, <<k>>, v, "int")
    \/ \E k \in KindsDictKeys : DictRemove(KindsVarKey, 1, <<k>>, "int")
    \/ \E k \in KindsVarKeys, v \in Values("int") : VarSet(k, v, "int")
    \/ \E k \in KindsVarKeys : VarRemove(k, "int")

SpecKinds == InitKinds /\ [][NextKinds]_vars

---------------------------------------------------------------------------
(* A store that starts writing under V1 and is switched to V2 while an     *)
(* ArrayDB, a DictDB and a VarDB are in use; a second ArrayDB instance is  *)
(* constructed on the first one's region at any time.                      *)

\* the var_key of the three containers: its V1 and V2 encodings differ
MigrateVarKey == StrV(<<97, 98>>)

\* keys of DictDB entries (the V1 and V2 encodings of 128 differ)
MigrateDictKeys == {IntV(128)}

MigrateLocs ==
    {Loc("dict", MigrateVarKey, <<k>>, "int") : k \in MigrateDictKeys}
        \cup {Loc("var", MigrateVarKey, <<>>, "int")}

InitMigrate ==
    /\ write_scheme = 1
    /\ arr = [i \in Inst |-> IF i = 1
                             THEN ArrayDB_init(EmptyStore, MigrateVarKey, RootDB, "int")
                             ELSE NoArray]
    /\ InitRest

NextMigrate ==
    \/ Put(1, IntV(300))
    \/ Pop(1)
    \/ Construct(2, MigrateVarKey, "int")
    \/ \E k \in MigrateDictKeys, v \in Values("int") :
           DictSet(MigrateVarKey, 1, <<k>>, v, "int")
    \/ \E k \in MigrateDictKeys : DictRemove(MigrateVarKey, 1, <<k>>, "int")
    \/ VarSet(MigrateVarKey, IntV(-1), "int")
    \/ VarRemove(MigrateVarKey, "int")
    \/ SwitchScheme

SpecMigrate == InitMigrate /\ [][NextMigrate]_vars

---------------------------------------------------------------------------
(* An iteration over one ArrayDB of int, with appends, pops and sets of    *)
(* the same instance between its steps.  The caller that holds a generator *)
(* keeps resuming it (a for loop, or ArrayDB.__contains__).                *)

InitIter ==
    /\ write_scheme = 2
    /\ arr = [i \in Inst |-> IF i = 1 THEN ArrayDB_init(EmptyStore, IntV(1), RootDB, "int")
                             ELSE NoArray]
    /\ InitRest

NextIter ==
    \/ \E v \in Values("int") : Put(1, v)
    \/ Pop(1)
    \/ \E idx \in {IntV(0), IntV(-1)}, v \in Values("int") : SetItem(1, idx, v)
    \/ IterStart(1)
    \/ IterNext

SpecIter == InitIter /\ [][NextIter]_vars /\ WF_vars(IterNext)

---------------------------------------------------------------------------
(* A DictDB of depth 2 on the root store: reads, sets and removes at key   *)
(* paths of one and of two keys.                                           *)

DictDepth == 2

DictVarKey == StrV(<<109>>)

\* key paths that reach a DictDB of depth 1; the concatenations of their
\* encoded keys differ except for the int 1 and the bytes 01 below key 1
DictLeafPaths ==
    {<<IntV(1), IntV(1)>>, <<IntV(1), IntV(257)>>, <<IntV(1), BytesV(<<1>>)>>,
     <<IntV(257), IntV(257)>>}

\* the key paths offered: the leaf paths and their proper prefixes
DictPaths == DictLeafPaths \cup {Front(p) : p \in DictLeafPaths}

DictLocs == {Loc("dict", DictVarKey, p, "int") : p \in DictLeafPaths}

\* the values offered: the zero value of int and another
DictValues == {IntV(0), IntV(300)}

InitDict ==
    /\ write_scheme \in {1, 2}
    /\ arr = [i \in Inst |-> NoArray]
    /\ InitRest

NextDict ==
    \E p \in DictPaths :
        \/ \E v \in DictValues : DictSet(DictVarKey, DictDepth, p, v, "int")
        \/ DictRemove(DictVarKey, DictDepth, p, "int")
        \/ DictGet(DictVarKey, DictDepth, p, "int")

SpecDict == InitDict /\ [][NextDict]_vars

---------------------------------------------------------------------------
(* VarDBs of the five value types side by side on the root store.          *)

\* an Address in its byte form: a prefix byte and a 20-byte body
AddressSample == AddressV([i \in 1..21 |-> IF i = 1 THEN 1 ELSE 16 + i])

\* (var_key, value_type) of the VarDBs
VarConfigs ==
    {<<IntV(1), "int">>, <<BytesV(<<1>>), "int">>, <<StrV(<<115>>), "str">>,
     <<StrV(<<98>>), "bool">>, <<IntV(2), "Address">>, <<IntV(3), "bytes">>}

VarValues(value_type) ==
    IF value_type = "int" THEN {IntV(0), IntV(-129)}
    ELSE IF value_type = "str" THEN {StrV(<<233, 98>>)}
    ELSE IF value_type = "bool" THEN {BoolV(TRUE), BoolV(FALSE)}
    ELSE IF value_type = "Address" THEN {AddressSample}
    ELSE {BytesV(<<255, 0>>)}

VarLocs == {Loc("var", c[1], <<>>, c[2]) : c \in VarConfigs}

InitVar ==
    /\ write_scheme \in {1, 2}
    /\ arr = [i \in Inst |-> NoArray]
    /\ InitRest

NextVar ==
    \E c \in VarConfigs :
        \/ \E v \in VarValues(c[2]) : VarSet(c[1], v, c[2])
        \/ VarRemove(c[1], c[2])
        \/ VarGet(c[1], c[2])

SpecVar == InitVar /\ [][NextVar]_vars

---------------------------------------------------------------------------
(* The value codec on its own: encode_value, then decode_object with the   *)
(* type of the value.                                                      *)

MaxCodecInt == 40

MaxCodecLen == 2

\* byte strings and code point strings of up to MaxCodecLen elements of S
SeqsOver(S) == UNION {[1..n -> S] : n \in 0..MaxCodecLen}

CodecValues ==
    {IntV(n) : n \in (0 - MaxCodecInt)..MaxCodecInt}
        \cup {IntV(n) : n \in {-32769, -32768, -129, -128, 127, 128, 255, 256,
                               32767, 32768, 8388607, 8388608}}
        \cup {StrV(x) : x \in SeqsOver({0, 97, 233, 2047})}
        \cup {BytesV(x) : x \in SeqsOver({0, 127, 128, 255})}
        \cup {BoolV(TRUE), BoolV(FALSE), AddressSample,
              AddressV([i \in 1..20 |-> 255 - i])}

\* the value types of the codec
ValueTypes == {"int", "str", "Address", "bytes", "bool"}

ProbeCodec ==
    /\ probe.fn = "codec"
    /\ ~probe.done
    /\ LET enc == encode_value(probe.key)
       IN  probe' = [probe EXCEPT
                        !.done = TRUE,
                        !.out = [enc |-> enc,
                                 dec |-> decode_object([found |-> TRUE, b |-> enc.b],
                                                       probe.key.kind)]]
    /\ UNCHANGED <<store, write_scheme, result, seqVars, kvVars, iterVars, ctxVars>>

InitCodec ==
    /\ store = EmptyStore
    /\ write_scheme = 1
    /\ arr = [i \in Inst |-> NoArray]
    /\ result = NoResult
    /\ hist = [i \in Inst |-> <<>>]
    /\ nAppend = [i \in Inst |-> 0]
    /\ nPop = [i \in Inst |-> 0]
    /\ mexp = [x \in {} |-> NoneV]
    /\ iter = NoIter
    /\ context = NoContext
    /\ \E v \in CodecValues :
           probe = [fn |-> "codec", key |-> v, index |-> 0, done |-> FALSE, out |-> <<>>]

NextCodec == ProbeCodec

SpecCodec == InitCodec /\ [][NextCodec]_vars

---------------------------------------------------------------------------
(* The V2 framing on its own: rlp_encode_bytes of one payload, and the     *)
(* concatenation of the frames of a sequence of encoded keys, which is how *)
(* the V2 parts of nested prefixes and a key make up a store key.          *)

MaxFrameLen == 60

MaxPathLen == 2

\* the payload of n bytes c
Fill(n, c) == [i \in 1..n |-> c]

\* payloads of every length up to MaxFrameLen and around 255, 256
FramePayloads ==
    {Fill(n, c) : n \in 0..MaxFrameLen, c \in {0, 127, 128, 255}}
        \cup {Fill(n, c) : n \in {255, 256, 257, 300}, c \in {0, 255}}

\* encoded keys whose bytes look like frame headers, and two long ones
PathKeys ==
    UNION {[1..n -> {1, 128, 129, 130}] : n \in 0..2}
        \cup {Fill(56, 1), <<56>> \o Fill(56, 1)}

PathSeqs == UNION {[1..n -> PathKeys] : n \in 0..MaxPathLen}

\* the concatenation of the V2 frames of a sequence of encoded keys
RECURSIVE FramePath(_)
FramePath(keys) ==
    IF keys = <<>> THEN <<>>
    ELSE rlp_encode_bytes(Head(keys)) \o FramePath(Tail(keys))

ProbeFrame ==
    /\ probe.fn = "frame"
    /\ ~probe.done
    /\ probe' = [probe EXCEPT !.done = TRUE, !.out = rlp_encode_bytes(probe.key.s)]
    /\ UNCHANGED <<store, write_scheme, result, seqVars, kvVars, iterVars, ctxVars>>

ProbeFramePath ==
    /\ probe.fn = "path"
    /\ ~probe.done
    /\ probe' = [probe EXCEPT !.done = TRUE, !.out = FramePath(probe.key)]
    /\ UNCHANGED <<store, write_scheme, result, seqVars, kvVars, iterVars, ctxVars>>

InitFrame ==
    /\ store = EmptyStore
    /\ write_scheme = 2
    /\ arr = [i \in Inst |-> NoArray]
    /\ result = NoResult
    /\ hist = [i \in Inst |-> <<>>]
    /\ nAppend = [i \in Inst |-> 0]
    /\ nPop = [i \in Inst |-> 0]
    /\ mexp = [x \in {} |-> NoneV]
    /\ iter = NoIter
    /\ context = NoContext
    /\ \/ \E b \in FramePayloads :
              probe = [fn |-> "frame", key |-> BytesV(b), index |-> 0, done |-> FALSE,
                       out |-> <<>>]
       \/ \E ks \in PathSeqs :
              probe = [fn |-> "path", key |-> ks, index |-> 0, done |-> FALSE,
                       out |-> <<>>]

NextFrame == ProbeFrame \/ ProbeFramePath

SpecFrame == InitFrame /\ [][NextFrame]_vars

---------------------------------------------------------------------------
(* encode_key on its own, offered keys of every kind a caller can pass.    *)

\* keys of the four kinds, booleans, None and a value of another kind
EncodeKeyInputs == CodecValues \cup {NoneV, OtherV}

ProbeEncodeKey ==
    /\ probe.fn = "encode_key"
    /\ ~probe.done
    /\ probe' = [probe EXCEPT !.done = TRUE, !.out = encode_key(probe.key)]
    /\ UNCHANGED <<store, write_scheme, result, seqVars, kvVars, iterVars, ctxVars>>

InitEncodeKey ==
    /\ store = EmptyStore
    /\ write_scheme = 1
    /\ arr = [i \in Inst |-> NoArray]
    /\ result = NoResult
    /\ hist = [i \in Inst |-> <<>>]
    /\ nAppend = [i \in Inst |-> 0]
    /\ nPop = [i \in Inst |-> 0]
    /\ mexp = [x \in {} |-> NoneV]
    /\ iter = NoIter
    /\ context = NoContext
    /\ \E k \in EncodeKeyInputs :
           probe = [fn |-> "encode_key", key |-> k, index |-> 0, done |-> FALSE,
                    out |-> <<>>]

NextEncodeKey == ProbeEncodeKey

SpecEncodeKey == InitEncodeKey /\ [][NextEncodeKey]_vars

---------------------------------------------------------------------------
(* int_to_bytes on its own.  Python's int has no width: beside the         *)
(* integers TLC can hold, an integer is also carried as a sign and its     *)
(* magnitude in base-256 digits (big-endian, no leading zero digit), and   *)
(* byte_length_of_int / int_to_bytes are computed on that form.            *)

MaxPower == 31

MaxSmallInt == 600

RECURSIVE StripZeros(_)
StripZeros(d) == IF d # <<>> /\ d[1] = 0 THEN StripZeros(Tail(d)) ELSE d

\* magnitude d - 1, for d > 0
RECURSIVE BigDecrement(_)
BigDecrement(d) ==
    LET n == Len(d)
    IN  IF d[n] > 0 THEN [d EXCEPT ![n] = @ - 1]
        ELSE BigDecrement(SubSeq(d, 1, n - 1)) \o <<255>>

\* magnitude d + 1, in as many digits as d (the first digit is below 255)
RECURSIVE BigIncrement(_)
BigIncrement(d) ==
    LET n == Len(d)
    IN  IF d[n] < 255 THEN [d EXCEPT ![n] = @ + 1]
        ELSE BigIncrement(SubSeq(d, 1, n - 1)) \o <<0>>

\* int.bit_length() of a digit
RECURSIVE BitLength8(_)
BitLength8(x) == IF x = 0 THEN 0 ELSE 1 + BitLength8(x \div 2)

\* int.bit_length() of a magnitude
big_bit_length(d) ==
    LET m == StripZeros(d)
    IN  IF m = <<>> THEN 0 ELSE 8 * (Len(m) - 1) + BitLength8(m[1])

\* the integer n on the sign-and-magnitude form
BigInt(n) ==
    [neg |-> n < 0, mag |-> rlp_get_bytes(IF n < 0 THEN 0 - n ELSE n)]

\* utils.byte_length_of_int: a negative n is sized as n + 1
big_byte_length_of_int(x) ==
    LET m == IF x.neg THEN BigDecrement(x.mag) ELSE x.mag
    IN  (big_bit_length(m) + 8) \div 8

\* int.to_bytes(length, 'big', signed=True)
big_to_bytes(x, length) ==
    IF ~x.neg
    THEN [k \in 1..(length - Len(x.mag)) |-> 0] \o x.mag
    ELSE LET m == StripZeros(BigDecrement(x.mag))
             padded == [k \in 1..(length - Len(m)) |-> 0] \o m
         IN  [k \in 1..length |-> 255 - padded[k]]

\* utils.int_to_bytes
big_int_to_bytes(x) == big_to_bytes(x, big_byte_length_of_int(x))

\* int.from_bytes(b, 'big', signed=True), b not empty
big_bytes_to_int(b) ==
    IF b[1] < 128 THEN [neg |-> FALSE, mag |-> StripZeros(b)]
    ELSE [neg |-> TRUE,
          mag |-> StripZeros(BigIncrement([k \in 1..Len(b) |-> 255 - b[k]]))]

\* 0x80 * 256^i and the number just below it, with either sign
PowerInputs ==
    {[neg |-> sg, mag |-> <<128>> \o Fill(i, 0)] : sg \in BOOLEAN, i \in 0..MaxPower}
        \cup {[neg |-> sg, mag |-> <<127>> \o Fill(i, 255)] : sg \in BOOLEAN, i \in 0..MaxPower}

SmallInts ==
    ((0 - MaxSmallInt)..MaxSmallInt)
        \cup {-8388609, -8388608, -8388607, -32769, -32768, -32767,
              32767, 32768, 32769, 8388607, 8388608, 8388609}

ProbeInt ==
    /\ probe.fn = "int"
    /\ ~probe.done
    /\ probe' = [probe EXCEPT !.done = TRUE, !.out = int_to_bytes(probe.key.n)]
    /\ UNCHANGED <<store, write_scheme, result, seqVars, kvVars, iterVars, ctxVars>>

ProbeBigInt ==
    /\ probe.fn = "bigint"
    /\ ~probe.done
    /\ probe' = [probe EXCEPT !.done = TRUE, !.out = big_int_to_bytes(probe.key)]
    /\ UNCHANGED <<store, write_scheme, result, seqVars, kvVars, iterVars, ctxVars>>

InitInt ==
    /\ store = EmptyStore
    /\ write_scheme = 1
    /\ arr = [i \in Inst |-> NoArray]
    /\ result = NoResult
    /\ hist = [i \in Inst |-> <<>>]
    /\ nAppend = [i \in Inst |-> 0]
    /\ nPop = [i \in Inst |-> 0]
    /\ mexp = [x \in {} |-> NoneV]
    /\ iter = NoIter
    /\ context = NoContext
    /\ \/ \E n \in SmallInts :
              probe = [fn |-> "int", key |-> IntV(n), index |-> 0, done |-> FALSE,
                       out |-> <<>>]
       \/ \E x \in PowerInputs :
              probe = [fn |-> "bigint", key |-> x, index |-> Len(x.mag) - 1,
                       done |-> FALSE, out |-> <<>>]

NextInt == ProbeInt \/ ProbeBigInt

SpecInt == InitInt /\ [][NextInt]_vars

---------------------------------------------------------------------------
(* The region a container takes on construction, on the root store and on  *)
(* handles that are already namespaced.                                    *)

RegionVarKeys ==
    {IntV(0), IntV(1), IntV(128), IntV(-1), StrV(<<>>), StrV(<<97, 98>>),
     BytesV(<<>>), BytesV(<<1>>), BytesV(<<129>>), AddressSample}

\* the root store, the region of a DictDB on it, and regions below that
RegionParents ==
    {RootDB}
        \cup {DictDB_init(k, RootDB, "int", 3).db : k \in {IntV(1), StrV(<<97, 98>>)}}
        \cup {DictDB_getitem_sub(DictDB_init(k, RootDB, "int", 3), IntV(128)).db :
                  k \in {IntV(1), StrV(<<97, 98>>)}}

RegionClasses == {"ArrayDB", "DictDB", "VarDB"}

\* the handle the constructor of container_cls keeps as self._db, or the
\* error of create_db_prefix for a class that has no region of its own
RegionOf(container_cls, var_key, db) ==
    IF container_cls = "ArrayDB"
    THEN [err |-> "", db |-> ArrayDB_init(EmptyStore, var_key, db, "int").db]
    ELSE IF container_cls = "DictDB"
    THEN [err |-> "", db |-> DictDB_init(var_key, db, "int", 1).db]
    ELSE [err |-> create_db_prefix(container_cls, var_key).err, db |-> db]

ProbeRegion ==
    /\ probe.fn \in RegionClasses
    /\ ~probe.done
    /\ probe' = [probe EXCEPT !.done = TRUE,
                               !.out = RegionOf(probe.fn, probe.key, probe.index)]
    /\ UNCHANGED <<store, write_scheme, result, seqVars, kvVars, iterVars, ctxVars>>

InitRegion ==
    /\ store = EmptyStore
    /\ write_scheme = 1
    /\ arr = [i \in Inst |-> NoArray]
    /\ result = NoResult
    /\ hist = [i \in Inst |-> <<>>]
    /\ nAppend = [i \in Inst |-> 0]
    /\ nPop = [i \in Inst |-> 0]
    /\ mexp = [x \in {} |-> NoneV]
    /\ iter = NoIter
    /\ context = NoContext
    /\ \E cls \in RegionClasses, k \in RegionVarKeys, parent \in RegionParents :
           probe = [fn |-> cls, key |-> k, index |-> parent, done |-> FALSE,
                    out |-> <<>>]

NextRegion == ProbeRegion

SpecRegion == InitRegion /\ [][NextRegion]_vars

---------------------------------------------------------------------------
(* ArrayDB.put and ArrayDB.pop one store access at a time.  Nothing in     *)
(* this layer wraps the accesses of one call in a transaction, so the      *)
(* store states between them can be seen: here by a second ArrayDB on the  *)
(* same region that is constructed and read while a call is under way.     *)
(* probe holds the position of the call: fn the method, index and key its  *)
(* locals, done whether pop has deleted the element key.                   *)

\* ArrayDB.put, first write: self.__put(size, value)
ArrayDB_put_LengthFirst(st, scheme, a, value) ==
    [err |-> encode_value(value).err,
     store |-> IF encode_value(value).err # "" THEN st
               ELSE ArrayDB__set_size(st, scheme, a, a.size + 1).store]

ArrayDB_put_element(st, scheme, a, value) ==
    ArrayDB__put(st, scheme, a, a.size, value)

\* ArrayDB.put, second write: self.__set_size(size + 1)
ArrayDB_put_length(st, scheme, a, size) ==
    ArrayDB__set_size(st, scheme, a, size + 1)

\* ArrayDB.pop, the read: last_val = self[index]
ArrayDB_pop_read(st, a) ==
    ArrayDB_get(st, a.db, a.size, IntV(a.size - 1), a.value_type)

\* ArrayDB.pop with the element key left in the store
ArrayDB_pop_delete_Keep(st, a, index) == st

\* ArrayDB.pop, the delete: self._db.delete(key of index)
ArrayDB_pop_delete(st, a, index) ==
    db_delete(st, a.db, KeyPair(IntV(index)))

\* ArrayDB.pop, the length write: self.__set_size(index)
ArrayDB_pop_length(st, scheme, a, index) ==
    ArrayDB__set_size(st, scheme, a, index)

StepResult(op, arg, len0, ret, err) ==
    [op |-> op, inst |-> 1, path |-> <<>>, arg |-> arg, len0 |-> len0,
     ret |-> ret, err |-> err]

\* array.put(v) up to its first write
PutElement(v) ==
    /\ arr[1].live
    /\ probe.fn = ""
    /\ nAppend[1] < MaxAppends
    /\ LET w == ArrayDB_put_element(store, write_scheme, arr[1], v)
       IN  /\ store' = w.store
           /\ probe' = IF w.err # "" THEN probe
                       ELSE [fn |-> "put", key |-> v, index |-> arr[1].size,
                             done |-> FALSE, out |-> <<>>]
           /\ result' = StepResult("put-element", v, arr[1].size, NoneV, w.err)
    /\ UNCHANGED <<write_scheme, seqVars, kvVars, iterVars, ctxVars>>

\* array.put(v) from its first write to its return
PutLength ==
    /\ probe.fn = "put"
    /\ LET s == ArrayDB_put_length(store, write_scheme, arr[1], probe.index)
       IN  /\ store' = s.store
           /\ arr' = [arr EXCEPT ![1].size = s.size]
           /\ result' = StepResult("put", probe.key, probe.index, NoneV, "")
    /\ hist' = [hist EXCEPT ![1] = Append(@, probe.key)]
    /\ nAppend' = [nAppend EXCEPT ![1] = @ + 1]
    /\ probe' = NoProbe
    /\ UNCHANGED <<write_scheme, nPop, kvVars, iterVars, ctxVars>>

\* array.pop() up to the read of the last element (or its return, when the
\* array is empty)
PopRead ==
    /\ arr[1].live
    /\ probe.fn = ""
    /\ IF arr[1].size = 0
       THEN /\ result' = StepResult("pop", NoneV, 0, NoneV, "")
            /\ UNCHANGED probe
       ELSE LET last_val == ArrayDB_pop_read(store, arr[1])
                raised == last_val.err # "" \/ last_val.ret = RaisedV
            IN  /\ result' = StepResult("pop-read", NoneV, arr[1].size, last_val.ret,
                                        IF raised THEN "raised" ELSE "")
                /\ probe' = IF raised THEN probe
                            ELSE [fn |-> "pop", key |-> last_val.ret,
                                  index |-> arr[1].size - 1, done |-> FALSE,
                                  out |-> <<>>]
    /\ UNCHANGED <<store, write_scheme, seqVars, kvVars, iterVars, ctxVars>>

\* array.pop(): the delete of the last element's key
PopDelete ==
    /\ probe.fn = "pop"
    /\ ~probe.done
    /\ store' = ArrayDB_pop_delete(store, arr[1], probe.index)
    /\ probe' = [probe EXCEPT !.done = TRUE]
    /\ result' = StepResult("pop-delete", NoneV, arr[1].size, NoneV, "")
    /\ UNCHANGED <<write_scheme, seqVars, kvVars, iterVars, ctxVars>>

\* array.pop() from the delete to its return
PopLength ==
    /\ probe.fn = "pop"
    /\ probe.done
    /\ LET s == ArrayDB_pop_length(store, write_scheme, arr[1], probe.index)
       IN  /\ store' = s.store
           /\ arr' = [arr EXCEPT ![1].size = s.size]
           /\ result' = StepResult("pop", NoneV, probe.index + 1, probe.key, "")
    /\ hist' = [hist EXCEPT ![1] = SubSeq(@, 1, Len(@) - 1)]
    /\ nPop' = [nPop EXCEPT ![1] = @ + 1]
    /\ probe' = NoProbe
    /\ UNCHANGED <<write_scheme, nAppend, kvVars, iterVars, ctxVars>>

\* what the second ArrayDB is asked for
ObserverIndexes == {IntV(k) : k \in (0 - 1)..MaxAppends}

InitSteps == InitSeq

NextSteps ==
    \/ \E v \in PutValues(arr[1].value_type) : PutElement(v)
    \/ PutLength
    \/ PopRead
    \/ PopDelete
    \/ PopLength
    \/ Construct(2, arr[1].var_key, arr[1].value_type)
    \/ \E idx \in ObserverIndexes : Get(2, idx)

SpecSteps == InitSteps /\ [][NextSteps]_vars

---------------------------------------------------------------------------
(* One DictDB region that holds an entry written under V1, looked up with  *)
(* another key of the same kind: the lookup offers the store the V1 and    *)
(* the V2 form of that key.                                                *)

\* keys of the three kinds whose two encodings are compared
CrossKeys ==
    {IntV(n) : n \in 0..MaxCodecInt}
        \cup {IntV(n) : n \in {127, 128, 129, 255, 256, 32767, 32768, 33023}}
        \cup {StrV(x) : x \in SeqsOver({0, 97, 128, 233, 2047})}
        \cup {BytesV(x) : x \in SeqsOver({0, 127, 128, 129, 255})}

\* a var_key whose V1 and V2 encodings are the same byte, so that the
\* entries of both schemes lie in one region
CrossVarKey == StrV(<<109>>)

CrossDict == DictDB_init(CrossVarKey, RootDB, "int", 1)

CrossValue == IntV(7)

\* d[k] = 7 while the store writes under V1
CrossWrite ==
    /\ probe.fn = "cross"
    /\ result.op = ""
    /\ LET r == DictDB_setitem(store, 1, CrossDict, probe.key, CrossValue)
       IN  /\ store' = r.store
           /\ result' = [op |-> "dict-set", inst |-> 0, path |-> <<probe.key>>,
                         arg |-> CrossValue, len0 |-> 0, ret |-> NoneV, err |-> r.err]
    /\ UNCHANGED <<write_scheme, seqVars, kvVars, pureVars, iterVars, ctxVars>>

\* d[k'] read back
CrossRead ==
    /\ probe.fn = "cross"
    /\ result.op = "dict-set"
    /\ LET r == DictDB_getitem(store, CrossDict, probe.index)
       IN  result' = [op |-> "dict-get", inst |-> 0, path |-> <<probe.index>>,
                      arg |-> NoneV, len0 |-> 0, ret |-> r.ret, err |-> r.err]
    /\ UNCHANGED <<store, write_scheme, seqVars, kvVars, pureVars, iterVars, ctxVars>>

InitCross ==
    /\ store = EmptyStore
    /\ write_scheme = 1
    /\ arr = [i \in Inst |-> NoArray]
    /\ result = NoResult
    /\ hist = [i \in Inst |-> <<>>]
    /\ nAppend = [i \in Inst |-> 0]
    /\ nPop = [i \in Inst |-> 0]
    /\ mexp = [x \in {} |-> NoneV]
    /\ iter = NoIter
    /\ context = NoContext
    /\ \E k \in CrossKeys, k2 \in CrossKeys :
           /\ k.kind = k2.kind
           /\ probe = [fn |-> "cross", key |-> k, index |-> k2, done |-> FALSE,
                       out |-> <<>>]

NextCross == CrossWrite \/ CrossRead

SpecCross == InitCross /\ [][NextCross]_vars

---------------------------------------------------------------------------
(* ContainerUtil.put_to_db / get_from_db: a nested Python container is     *)
(* written leaf by leaf and a leaf is read back by its path.  A dict is    *)
(* carried as the sequence of its (key, value) items in iteration order, a *)
(* list or tuple as the sequence of its elements.                          *)

DictV(items) == [kind |-> "dict", n |-> 0, s |-> items]

ListV(elems) == [kind |-> "list", n |-> 0, s |-> elems]

\* container.items() of a dict, enumerate(container) of a list or tuple
ItemsOf(container) ==
    IF container.kind = "dict" THEN container.s
    ELSE [i \in 1..Len(container.s) |-> <<IntV(i - 1), container.s[i]>>]

\* ContainerUtil.__put_to_db_internal: [err, store]; an exception ends the
\* loop and leaves what was written before it
RECURSIVE put_to_db_internal(_, _, _, _)
put_to_db_internal(st, scheme, db, iters) ==
    IF iters = <<>> THEN [err |-> "", store |-> st]
    ELSE LET key == Head(iters)[1]
             value == Head(iters)[2]
             db_key == KeyPair(key)
             sub_db == get_sub_db(db, db_key)
             done == IF db_key.err # "" THEN [err |-> db_key.err, store |-> st]
                     ELSE IF value.kind \in {"dict", "list"}
                     THEN put_to_db_internal(st, scheme, sub_db, ItemsOf(value))
                     ELSE IF encode_value(value).err # ""
                     THEN [err |-> encode_value(value).err, store |-> st]
                     ELSE [err |-> "",
                           store |-> db_put(st, scheme, db, db_key, encode_value(value).b)]
         IN  IF done.err # "" THEN done
             ELSE put_to_db_internal(done.store, scheme, db, Tail(iters))

\* ContainerUtil.put_to_db: [err, store]
put_to_db(st, scheme, db, db_key, container) ==
    LET sub_db == get_sub_db(db, KeyPair(db_key))
    IN  IF container.kind \in {"dict", "list"}
        THEN put_to_db_internal(st, scheme, sub_db, ItemsOf(container))
        ELSE [err |-> "", store |-> st]

\* the sub-store get_from_db reaches through args
RECURSIVE get_from_db_sub(_, _)
get_from_db_sub(sub_db, args) ==
    IF args = <<>> THEN sub_db
    ELSE get_from_db_sub(get_sub_db(sub_db, KeyPair(Head(args))), Tail(args))

\* ContainerUtil.get_from_db(db, db_key, *args, value_type) with at least
\* one arg: [err, ret]
get_from_db(st, db, db_key, args, value_type) ==
    LET last_arg == args[Len(args)]
        sub_db == get_from_db_sub(get_sub_db(db, KeyPair(db_key)),
                                  SubSeq(args, 1, Len(args) - 1))
        byte_key == db_get(st, sub_db, KeyPair(last_arg))
    IN  IF \E i \in 1..Len(args) : KeyPair(args[i]).err # ""
        THEN [err |-> "raised", ret |-> NoneV]
        ELSE [err |-> "", ret |-> decode_object(byte_key, value_type)]

\* dict keys and path elements; each encodes to one byte
WholesaleKeys == {IntV(0), IntV(1), StrV(<<97>>), BytesV(<<1>>)}

WholesaleKeyPairs == {kp \in WholesaleKeys \X WholesaleKeys : kp[1] # kp[2]}

WholesaleTypes == {"int", "str"}

WholesaleDbKey == StrV(<<107>>)

\* the keys of a dict that is nested in another container
WholesaleInnerKeys == {IntV(1), BytesV(<<1>>)}

\* containers of scalar leaves of type t
FlatContainers(t) ==
    {DictV(<<<<k, v>>>>) : k \in WholesaleInnerKeys, v \in Values(t)}
        \cup {DictV(<<<<kp[1], vp[1]>>, <<kp[2], vp[2]>>>>) :
                 kp \in WholesaleKeyPairs \cap (WholesaleInnerKeys \X WholesaleInnerKeys),
                 vp \in {x \in Values(t) \X Values(t) : x[1] # x[2]}}
        \cup {ListV(<<v>>) : v \in Values(t)}
        \cup {ListV(<<vp[1], vp[2]>>) :
                 vp \in {x \in Values(t) \X Values(t) : x[1] # x[2]}}

\* what a container may hold at a key: a leaf or a container of leaves
WholesaleElements(t) == Values(t) \cup FlatContainers(t)

\* two elements of which the first is a leaf
WholesaleElementPairs(t) == Values(t) \X WholesaleElements(t)

\* the containers handed to put_to_db: dicts and lists of up to two
\* elements, nested up to two levels
WholesaleContainers(t) ==
    {DictV(<<<<k, e>>>>) : k \in WholesaleKeys, e \in WholesaleElements(t)}
        \cup {DictV(<<<<kp[1], ep[1]>>, <<kp[2], ep[2]>>>>) :
                 kp \in WholesaleKeyPairs, ep \in WholesaleElementPairs(t)}
        \cup {ListV(<<e>>) : e \in WholesaleElements(t)}
        \cup {ListV(<<ep[1], ep[2]>>) : ep \in WholesaleElementPairs(t)}

WholesalePaths ==
    {<<k>> : k \in WholesaleKeys} \cup {<<kp[1], kp[2]>> : kp \in WholesaleKeys \X WholesaleKeys}

\* ContainerUtil.put_to_db(db, 'k', container)
PutToDb ==
    /\ probe.fn = "put_to_db"
    /\ ~probe.done
    /\ LET r == put_to_db(store, write_scheme, RootDB, WholesaleDbKey, probe.key)
       IN  /\ store' = r.store
           /\ result' = [op |-> "put_to_db", inst |-> 0, path |-> <<>>,
                         arg |-> NoneV, len0 |-> 0, ret |-> NoneV, err |-> r.err]
    /\ probe' = [probe EXCEPT !.done = TRUE]
    /\ UNCHANGED <<write_scheme, seqVars, kvVars, iterVars, ctxVars>>

\* ContainerUtil.get_from_db(db, 'k', *path, value_type=t)
GetFromDb(path) ==
    /\ probe.fn = "put_to_db"
    /\ probe.done
    /\ LET r == get_from_db(store, RootDB, WholesaleDbKey, path, probe.index)
       IN  result' = [op |-> "get_from_db", inst |-> 0, path |-> path,
                      arg |-> NoneV, len0 |-> 0, ret |-> r.ret, err |-> r.err]
    /\ UNCHANGED <<store, write_scheme, seqVars, kvVars, pureVars, iterVars, ctxVars>>

InitWholesale ==
    /\ store = EmptyStore
    /\ write_scheme \in {1, 2}
    /\ arr = [i \in Inst |-> NoArray]
    /\ result = NoResult
    /\ hist = [i \in Inst |-> <<>>]
    /\ nAppend = [i \in Inst |-> 0]
    /\ nPop = [i \in Inst |-> 0]
    /\ mexp = [x \in {} |-> NoneV]
    /\ iter = NoIter
    /\ context = NoContext
    /\ \E t \in WholesaleTypes : \E c \in WholesaleContainers(t) :
           probe = [fn |-> "put_to_db", key |-> c, index |-> t, done |-> FALSE,
                    out |-> <<>>]

NextWholesale ==
    \/ PutToDb
    \/ \E path \in WholesalePaths : GetFromDb(path)

SpecWholesale == InitWholesale /\ [][NextWholesale]_vars

---------------------------------------------------------------------------
(* IconPreValidator: validation of a deploy transaction                    *)
(* (iconscore/icon_pre_validator.py).  What a call raises is a record      *)
(* [raised, message]; raised is "" when the call returns.                  *)

Returned == [raised |-> "", message |-> ""]

Raise(cls, message) == [raised |-> cls, message |-> message]

\* whether "except Exception" catches an exception of class cls.  The
\* classes of base/exception.py derive from IconServiceBaseException, which
\* derives from BaseException and not from Exception (lines 206-207: "This
\* exception is not catched at the 'except' statement below").
CaughtByExceptException(cls) ==
    cls \notin {"", "InvalidRequestException", "InvalidParamsException"}

\* IconPreValidator._is_score_address
is_score_address(address) ==
    LET is_contract == address.is_contract
        is_zero_score_address == address.is_zero
        is_score_active == address.is_active
        is_score_address_ ==
            is_contract /\ ~is_zero_score_address /\ ~is_score_active
    IN  ~is_score_address_

\* the try block of _validate_new_score_address_on_deploy_transaction
new_score_address_try(params, in_score_mapper) ==
    IF ~params.has_data THEN Raise("KeyError", "'data'")
    ELSE IF ~params.data_is_dict THEN Raise("TypeError", "contentType")
    ELSE IF ~params.has_contentType THEN Raise("KeyError", "'contentType'")
    ELSE IF params.contentType # "application/tbears"
    THEN IF ~params.has_timestamp THEN Raise("KeyError", "'timestamp'")
         ELSE IF in_score_mapper
         THEN Raise("InvalidRequestException", "SCORE address already in use")
         ELSE Returned
    ELSE Returned

\* _validate_new_score_address_on_deploy_transaction whose except clause
\* catches every exception
validate_new_score_address_on_deploy_transaction_CatchAll(params, in_score_mapper) ==
    IF ~params.to.is_zero THEN Returned
    ELSE IF new_score_address_try(params, in_score_mapper).raised # ""
    THEN Raise("InvalidParamsException", "Invalid params")
    ELSE Returned

\* IconPreValidator._validate_new_score_address_on_deploy_transaction
validate_new_score_address_on_deploy_transaction(params, in_score_mapper) ==
    IF ~params.to.is_zero THEN Returned
    ELSE LET e == new_score_address_try(params, in_score_mapper)
         IN  IF CaughtByExceptException(e.raised)
             THEN Raise("InvalidParamsException", "Invalid params")
             ELSE e

\* IconPreValidator._validate_deploy_transaction
validate_deploy_transaction(params, in_score_mapper) ==
    IF ~is_score_address(params.to)
    THEN Raise("InvalidRequestException", "is not a SCORE address")
    ELSE IF ~(params.has_data /\ params.data_is_dict)
    THEN Raise("InvalidRequestException", "Data not found")
    ELSE IF ~params.has_contentType
    THEN Raise("InvalidRequestException", "ContentType not found")
    ELSE IF ~params.has_content
    THEN Raise("InvalidRequestException", "Content not found")
    ELSE validate_new_score_address_on_deploy_transaction(params, in_score_mapper)

\* 'to' addresses: the zero SCORE address, an active and an inactive SCORE,
\* and an account
DeployAddresses ==
    {[is_contract |-> TRUE, is_zero |-> TRUE, is_active |-> FALSE],
     [is_contract |-> TRUE, is_zero |-> FALSE, is_active |-> TRUE],
     [is_contract |-> TRUE, is_zero |-> FALSE, is_active |-> FALSE],
     [is_contract |-> FALSE, is_zero |-> FALSE, is_active |-> FALSE]}

DeployContentTypes == {"application/tbears", "application/zip"}

\* params of a transaction with dataType 'deploy' and the keys 'to', 'from'
DeployParams ==
    [to : DeployAddresses, has_data : BOOLEAN, data_is_dict : BOOLEAN,
     has_contentType : BOOLEAN, has_content : BOOLEAN,
     contentType : DeployContentTypes, has_timestamp : BOOLEAN]

\* self._validate_deploy_transaction(params)
ValidateDeploy ==
    /\ probe.fn = "validate_deploy"
    /\ ~probe.done
    /\ probe' = [probe EXCEPT !.done = TRUE,
                              !.out = validate_deploy_transaction(probe.key, probe.index)]
    /\ UNCHANGED <<store, write_scheme, result, seqVars, kvVars, iterVars, ctxVars>>

\* self._validate_new_score_address_on_deploy_transaction(params), called
\* on its own
ValidateNewScoreAddress ==
    /\ probe.fn = "validate_new_score_address"
    /\ ~probe.done
    /\ probe' = [probe EXCEPT
                    !.done = TRUE,
                    !.out = validate_new_score_address_on_deploy_transaction(
                                probe.key, probe.index)]
    /\ UNCHANGED <<store, write_scheme, result, seqVars, kvVars, iterVars, ctxVars>>

InitDeploy ==
    /\ store = EmptyStore
    /\ write_scheme = 1
    /\ arr = [i \in Inst |-> NoArray]
    /\ result = NoResult
    /\ hist = [i \in Inst |-> <<>>]
    /\ nAppend = [i \in Inst |-> 0]
    /\ nPop = [i \in Inst |-> 0]
    /\ mexp = [x \in {} |-> NoneV]
    /\ iter = NoIter
    /\ context = NoContext
    /\ \E f \in {"validate_deploy", "validate_new_score_address"},
          params \in DeployParams, in_score_mapper \in BOOLEAN :
           probe = [fn |-> f, key |-> params, index |-> in_score_mapper,
                    done |-> FALSE, out |-> Returned]

NextDeploy == ValidateDeploy \/ ValidateNewScoreAddress

SpecDeploy == InitDeploy /\ [][NextDeploy]_vars

---------------------------------------------------------------------------
(* icx/issue/engine.py: issuance of ICX to an account.  context carries    *)
(* what the engine reaches through its IconScoreContext: the accounts and  *)
(* the total supply of context.storage.icx, and the number of event logs   *)
(* emitted.                                                                *)

\* context.storage.icx.get_account(context, to)
icx_get_account(ctx, to) == [address |-> to, balance |-> ctx.accounts[to]]

\* Account.deposit(value)
Account_deposit(account, value) == [account EXCEPT !.balance = @ + value]

\* context.storage.icx.get_total_supply(context)
icx_get_total_supply(ctx) == ctx.total_supply

\* context.storage.icx.put_account(context, account)
icx_put_account(ctx, account) ==
    [ctx EXCEPT !.accounts[account.address] = account.balance]

\* context.storage.icx.put_total_supply(context, value)
icx_put_total_supply(ctx, value) == [ctx EXCEPT !.total_supply = value]

\* EventLogEmitter.emit_event_log(context, ...)
emit_event_log(ctx) == [ctx EXCEPT !.event_logs = @ + 1]

\* Engine._issue that raises the total supply and stores no account
Engine__issue_SupplyOnly(ctx, to, amount) ==
    IF amount > 0
    THEN icx_put_total_supply(ctx, icx_get_total_supply(ctx) + amount)
    ELSE ctx

\* Engine._issue
Engine__issue(ctx, to, amount) ==
    IF amount > 0
    THEN LET to_account == Account_deposit(icx_get_account(ctx, to), amount)
             current_total_supply == icx_get_total_supply(ctx)
         IN  icx_put_total_supply(icx_put_account(ctx, to_account),
                                  current_total_supply + amount)
    ELSE ctx

\* Engine.issue; prep_in_issue_data: whether issue_data has the group of
\* ISSUE_CALCULATE_ORDER, for which a log is emitted before the total's.
\* regulator.put_regulate_variable writes the regulator's own entries and
\* no account or total supply.
Engine_issue(ctx, to_address, prep_in_issue_data, corrected_icx_issue_amount) ==
    LET issued == Engine__issue(ctx, to_address, corrected_icx_issue_amount)
        logged == IF prep_in_issue_data THEN emit_event_log(issued) ELSE issued
    IN  emit_event_log(logged)

MaxEventLogs == 6

IssueAddresses == {"treasury", "hx01"}

IssueAmounts == {-3, 0, 1, 2}

\* engine.issue(context, to_address, issue_data, regulator)
Issue(to_address, prep_in_issue_data, amount) ==
    /\ probe.fn = "issue"
    /\ context.event_logs + 2 <= MaxEventLogs
    /\ context' = Engine_issue(context, to_address, prep_in_issue_data, amount)
    /\ result' = [op |-> "issue", inst |-> 0, path |-> <<to_address>>,
                  arg |-> IntV(amount), len0 |-> 0, ret |-> NoneV, err |-> ""]
    /\ UNCHANGED <<store, write_scheme, seqVars, kvVars, pureVars, iterVars>>

InitIssue ==
    /\ store = EmptyStore
    /\ write_scheme = 1
    /\ arr = [i \in Inst |-> NoArray]
    /\ result = NoResult
    /\ hist = [i \in Inst |-> <<>>]
    /\ nAppend = [i \in Inst |-> 0]
    /\ nPop = [i \in Inst |-> 0]
    /\ mexp = [x \in {} |-> NoneV]
    /\ iter = NoIter
    /\ probe = [NoProbe EXCEPT !.fn = "issue"]
    /\ \E accounts \in [IssueAddresses -> {0, 5}], others \in {0, 10} :
           context = [accounts |-> accounts,
                      total_supply |-> accounts["treasury"] + accounts["hx01"] + others,
                      event_logs |-> 0]

NextIssue ==
    \E to_address \in IssueAddresses, prep_in_issue_data \in BOOLEAN,
       amount \in IssueAmounts :
        Issue(to_address, prep_in_issue_data, amount)

SpecIssue == InitIssue /\ [][NextIssue]_vars

---------------------------------------------------------------------------
(* Properties of a single ArrayDB (SpecSeq).                               *)

\* whether the element key of index i is stored in the region of array a
ElementStored(a, i) == db_get(store, a.db, KeyPair(IntV(i))).found

\* C1: for a single ArrayDB that starts on an empty region, length() is the
\* number of completed appends minus the number of pops that removed an
\* element, and get(i) for 0 <= i < length() returns the i-th surviving
\* value in append order (hist: the appended values, the popped tail removed).
C1_SequenceInvariant ==
    LET a == arr[1]
    IN  /\ ArrayDB_len(a) = nAppend[1] - nPop[1]
        /\ ArrayDB_len(a) = Len(hist[1])
        /\ \A i \in 0..(ArrayDB_len(a) - 1) :
               ArrayDB_get(store, a.db, a.size, IntV(i), a.value_type)
                   = [err |-> "", ret |-> hist[1][i + 1]]

\* three appends and then a pop that returned the third value
C1_Witness ==
    /\ nAppend[1] = 3
    /\ nPop[1] = 1
    /\ ArrayDB_len(arr[1]) = 2
    /\ result.op = "pop"
    /\ result.ret \in Values(arr[1].value_type)

C9_PopOnEmptyWritesNothing ==
    [][(result'.op = "pop" /\ arr[result'.inst].size = 0)
           => (/\ result'.ret = NoneV
               /\ result'.err = ""
               /\ store' = store
               /\ arr' = arr)]_vars

\* pop on an array that never held an element: no key is stored at all
C9_Witness ==
    /\ result.op = "pop"
    /\ result.len0 = 0
    /\ result.ret = NoneV
    /\ nAppend[1] = 0
    /\ DOMAIN store = {}

\* the outcome of the get recorded in result, against length L = result.len0
GetOutcomeAsSpecified ==
    LET L == result.len0
        idx == result.arg
        k == IF idx.n < 0 THEN idx.n + L ELSE idx.n
    IN  IF IsInstanceInt(idx)
        THEN /\ (result.err = "") <=> (0 - L <= idx.n /\ idx.n < L)
             /\ result.err # "" => result.err = "ArrayDB out of index"
             /\ result.err = "" => result.ret = hist[result.inst][k + 1]
        ELSE result.err = "Invalid index type: not an integer"

\* C10: get(i) on an ArrayDB of length L succeeds iff -L <= i < L; a negative
\* i reads index i + L, so get(-k) = get(L - k) for 1 <= k <= L; any other
\* integer fails with the out-of-range error and a non-integer with the
\* invalid-index error; a failing get changes neither the store nor the length.
C10_GetIndexRange ==
    /\ [](result.op = "get" => GetOutcomeAsSpecified)
    /\ [](LET a == arr[1]
          IN  \A k \in 1..ArrayDB_len(a) :
                  /\ ArrayDB_get(store, a.db, a.size, IntV(0 - k), a.value_type)
                         = ArrayDB_get(store, a.db, a.size, IntV(a.size - k), a.value_type)
                  /\ ArrayDB_get(store, a.db, a.size, IntV(0 - k), a.value_type).err = "")
    /\ [][(result'.op = "get" /\ result'.err # "")
              => (store' = store /\ arr' = arr)]_vars

\* get(-3) on an array of length 3 returned its first element
C10_Witness ==
    /\ result.op = "get"
    /\ result.arg = IntV(-3)
    /\ result.len0 = 3
    /\ result.err = ""
    /\ result.ret = hist[1][1]


---------------------------------------------------------------------------
(* Properties of ArrayDB keys and of several instances (SpecKeys,          *)
(* SpecAlias).                                                             *)

\* the length persisted in the region of array a (0 when no key is stored)
PersistedLength(a) == ArrayDB__get_size_from_db(store, a.db)

RECURSIVE SumOver(_, _)
SumOver(f, S) ==
    IF S = {} THEN 0
    ELSE LET x == CHOOSE y \in S : TRUE IN f[x] + SumOver(f, S \ {x})

\* the live instances constructed with the var_key of instance i
SameKey(i) == {j \in Inst : arr[j].live /\ arr[j].var_key = arr[i].var_key}

\* C2: every append and pop uses the persisted length, so for instances
\* constructed on one region: each instance's length() is the persisted
\* length, the persisted length is the total of appends minus the total of
\* removing pops, and no append has overwritten an element (the region holds
\* as many elements as that total).
C2_LengthRereadOnEveryMutation ==
    \A i \in Inst :
        arr[i].live =>
            /\ ArrayDB_len(arr[i]) = PersistedLength(arr[i])
            /\ PersistedLength(arr[i])
                   = SumOver(nAppend, SameKey(i)) - SumOver(nPop, SameKey(i))
            /\ Cardinality({k \in 0..(NumInst * MaxAppends) : ElementStored(arr[i], k)})
                   = SumOver(nAppend, SameKey(i)) - SumOver(nPop, SameKey(i))

\* C3: under each scheme the key of the length differs from the key of
\* element i, for every index i >= 0.
C3_LengthKeyDisjointFromElements ==
    probe.done =>
        /\ probe.out.size_v1 # probe.out.elem_v1
        /\ probe.out.size_v2 # probe.out.elem_v2

\* what instance a shows its caller: length() and get(i) at every index
ArrayView(a, st) ==
    [len |-> ArrayDB_len(a),
     items |-> [k \in 0..(ArrayDB_len(a) - 1) |->
                   ArrayDB_get(st, a.db, a.size, IntV(k), a.value_type)]]

\* C4: an append, pop or set through an ArrayDB leaves length() and get(i) of
\* every ArrayDB built with a different var_key (of the same or of another
\* kind) unchanged.
C4_DistinctVarKeysDoNotAlias ==
    [][\A j \in Inst :
           (/\ result'.op \in {"put", "pop", "set"}
            /\ result'.inst # j
            /\ arr[j].live
            /\ arr[result'.inst].var_key # arr[j].var_key)
               => ArrayView(arr'[j], store') = ArrayView(arr[j], store)]_vars


---------------------------------------------------------------------------
(* Properties of containers of different kinds (SpecKinds).                *)

\* array a shows exactly the values in h
ArrayShows(a, h) ==
    /\ ArrayDB_len(a) = Len(h)
    /\ \A k \in 0..(Len(h) - 1) :
           ArrayDB_get(store, a.db, a.size, IntV(k), a.value_type)
               = [err |-> "", ret |-> h[k + 1]]

\* every location reads the value last set through it, or the zero value
LocsShow(locs) ==
    \A loc \in locs :
        ReadLoc(store, loc)
            = IF loc \in DOMAIN mexp THEN mexp[loc] ELSE get_default_value(loc.t)

\* C5: the regions of ArrayDB (tag 00), DictDB (tag 01) and VarDB (tag 02)
\* are disjoint and VarDBs with distinct keys do not affect each other:
\* whatever is done through the others, the ArrayDB shows the values
\* appended through it, and every DictDB entry and every VarDB the value
\* last set through it (the zero value when none is).
C5_KindsAndScalarsDisjoint ==
    /\ ArrayShows(arr[1], hist[1])
    /\ LocsShow(KindsLocs)


---------------------------------------------------------------------------
(* Properties across the switch of the write scheme and across instances   *)
(* (SpecMigrate).                                                          *)

\* the two final keys the store is offered for a location
LocKeys(loc) ==
    IF loc.c = "var"
    THEN LET v == VarDB_init(loc.var_key, RootDB, loc.t)
         IN  [v1 |-> v.db.v1 \o v.var_byte_key.v1, v2 |-> v.db.v2 \o v.var_byte_key.v2]
    ELSE LET d == LeafDict(loc.var_key, Len(loc.path), loc.path, loc.t)
             k == KeyPair(Last(loc.path))
         IN  [v1 |-> d.db.v1 \o k.v1, v2 |-> d.db.v2 \o k.v2]

\* a logical key is stored under at most one of its two final keys
StoredOnce(k1, k2) == k1 = k2 \/ ~(k1 \in DOMAIN store /\ k2 \in DOMAIN store)

\* C6: with a first-match-wins store that is switched from V1 to V2, every
\* DictDB entry and VarDB reads the value last set through it and an
\* ArrayDB constructed now has the length and the elements appended so far,
\* whichever scheme was configured at each write; a logical key stays under
\* the final key it was first written to (it is never stored under both).
C6_ReadableAcrossSchemeSwitch ==
    /\ LocsShow(MigrateLocs)
    /\ ArrayShows(ArrayDB_init(store, MigrateVarKey, RootDB, "int"), hist[1])
    /\ \A loc \in MigrateLocs : StoredOnce(LocKeys(loc).v1, LocKeys(loc).v2)
    /\ \A i \in 0..MaxAppends :
           StoredOnce(ArrayKeys(MigrateVarKey, i).elem_v1,
                      ArrayKeys(MigrateVarKey, i).elem_v2)
    /\ StoredOnce(ArrayKeys(MigrateVarKey, 0).size_v1, ArrayKeys(MigrateVarKey, 0).size_v2)

\* after the switch: the DictDB entry and the VarDB written under V1 are
\* still under their V1 keys, the entry has just been set again, and the
\* array holds element 0 and its length under V1 keys and element 1,
\* appended after the switch, under its V2 key
C6_Witness ==
    /\ write_scheme = 2
    /\ result.op = "dict_set"
    /\ LocKeys(Loc("dict", MigrateVarKey, <<IntV(128)>>, "int")).v1 \in DOMAIN store
    /\ LocKeys(Loc("var", MigrateVarKey, <<>>, "int")).v1 \in DOMAIN store
    /\ ArrayKeys(MigrateVarKey, 0).elem_v1 \in DOMAIN store
    /\ ArrayKeys(MigrateVarKey, 1).elem_v2 \in DOMAIN store
    /\ ArrayKeys(MigrateVarKey, 0).size_v1 \in DOMAIN store
    /\ PersistedLength(arr[1]) = 2

\* C7: an ArrayDB constructed on the region of an earlier instance, after
\* any operations through that instance, has the persisted length as its
\* length and shows the same length() and get(i) as the earlier instance;
\* a DictDB entry and a VarDB read through a newly constructed instance
\* give the value last set through an earlier one.
C7_IdentityIsRegionPath ==
    /\ result.op = "init" =>
           /\ ArrayDB_len(arr[2]) = PersistedLength(arr[2])
           /\ ArrayView(arr[2], store) = ArrayView(arr[1], store)
           /\ ArrayShows(arr[2], hist[1])
    /\ LocsShow(MigrateLocs)

\* a second instance constructed after three appends and a pop through the
\* first, with a DictDB entry set
C7_Witness ==
    /\ result.op = "init"
    /\ nAppend[1] = 3
    /\ nPop[1] = 1
    /\ ArrayDB_len(arr[2]) = 2
    /\ DOMAIN mexp # {}


---------------------------------------------------------------------------
(* Properties of ArrayDB.__setitem__ and of iteration (SpecSeq, SpecIter). *)

\* the errors of the index check shared by _get and __setitem__
IndexErrors == {"Invalid index type: not an integer", "ArrayDB out of index"}

\* the step is array[idx] = v on instance 1 and meets what is said of set
SetOutcomeAsSpecified ==
    LET a == arr[1]
        L == a.size
        idx == result'.arg
        k == IF idx.n < 0 THEN idx.n + L ELSE idx.n
        g == ArrayDB_get(store, a.db, a.size, idx, a.value_type)
    IN  /\ arr' = arr
        /\ ArrayDB__get_size_from_db(store', a.db) = ArrayDB__get_size_from_db(store, a.db)
        /\ IF g.err # "" THEN result'.err = g.err ELSE result'.err \notin IndexErrors
        /\ result'.err # "" => store' = store
        /\ result'.err = "" =>
               /\ ArrayDB_get(store', a.db, L, IntV(k), a.value_type)
                      = [err |-> "", ret |-> result'.ret]
               /\ \A j \in (0..(L - 1)) \ {k} :
                      ArrayDB_get(store', a.db, L, IntV(j), a.value_type)
                          = ArrayDB_get(store, a.db, L, IntV(j), a.value_type)
               /\ DOMAIN store' = DOMAIN store
               /\ \A x \in DOMAIN store :
                      store'[x] # store[x]
                          => x = FinalKey(store, write_scheme, a.db, KeyPair(IntV(k)))

\* C11: array[idx] = v fails with the error of get(idx) whenever get(idx)
\* fails (same normalisation, same range, same integer check) and then
\* writes nothing; when it succeeds get of the normalised index returns v,
\* get of every other index, the cached and the persisted length and every
\* other store key are unchanged.
C11_SetOverwritesInPlace ==
    [][result'.op = "set" => SetOutcomeAsSpecified]_vars

\* array[-1] = v on an array of length 3 replaced the third element by a
\* value that differs from the second
C11_Witness ==
    /\ result.op = "set"
    /\ result.arg = IntV(-1)
    /\ result.len0 = 3
    /\ result.err = ""
    /\ ArrayDB_len(arr[1]) = 3
    /\ hist[1][3] = result.ret
    /\ hist[1][2] # result.ret


\* the item the step recorded in result' had to yield: the element now at
\* that index, or the zero value when the index has been popped meanwhile
ItemAsSpecified ==
    LET i == result'.arg.n
    IN  result'.ret = IF i < Len(hist[1]) THEN hist[1][i + 1]
                      ELSE get_default_value(arr[1].value_type)

\* C12: an iteration started on an ArrayDB of length L captures L (also when
\* it is a later iteration), never fails, yields at most L items and has
\* yielded exactly L when it ends, whatever put, pop and set happen between
\* its steps; item i is what get(i) reads at that step under length L (the
\* current element i, the zero value once popped); and it does end.
C12_IterationYieldsStartLength ==
    /\ [](iter.live =>
              /\ iter.g.size = iter.len0
              /\ iter.err = ""
              /\ Len(iter.out) = iter.g.index
              /\ Len(iter.out) <= iter.len0
              /\ iter.done => Len(iter.out) = iter.len0)
    /\ [][(result'.op = "next" /\ result'.err = "") => ItemAsSpecified]_vars
    /\ ((iter.live /\ ~iter.done) ~> iter.done)

\* an iteration started at length 3 has ended with three items although the
\* array was popped down to length 1 and appended to again meanwhile
C12_Witness ==
    /\ iter.live
    /\ iter.done
    /\ iter.len0 = 3
    /\ Len(iter.out) = 3
    /\ nPop[1] >= 2
    /\ ArrayDB_len(arr[1]) = 1
    /\ iter.out[3] = get_default_value("int")


---------------------------------------------------------------------------
(* Properties of DictDB (SpecDict, SpecMap).                               *)

\* the DictDB on which the step recorded in result' made its last lookup
StepDict == LeafDict(DictVarKey, DictDepth, result'.path, "int")

\* C13: set and remove/delete on a DictDB whose depth is not 1 fail with
\* InvalidContainerAccess ('DictDB depth mismatch') and leave the store as it
\* was; a read on a DictDB of depth d > 1 returns the DictDB of depth d - 1
\* whose region is the parent's region extended by the key; on the DictDB of
\* depth 1 reached by navigation a set succeeds and a get of the same key
\* then returns the value set.
C13_DepthEnforced ==
    /\ [][(result'.op \in {"dict_set", "dict_remove"} /\ StepDict.depth # 1)
              => (result'.err = "DictDB depth mismatch" /\ store' = store)]_vars
    /\ [][(result'.op = "dict_set" /\ StepDict.depth = 1)
              => /\ result'.err = ""
                 /\ DictDB_getitem(store', StepDict, result'.arg)
                        = [err |-> "", ret |-> result'.ret]]_vars
    /\ [][(result'.op = "dict_get" /\ StepDict.depth > 1)
              => /\ result'.err = ""
                 /\ result'.ret.kind = "DictDB"
                 /\ result'.ret.n = StepDict.depth - 1
                 /\ result'.ret.s = (StepDict.db.v1 \o KeyPair(result'.arg).v1)
                                        \o <<-1>>
                                        \o (StepDict.db.v2 \o KeyPair(result'.arg).v2)]_vars

\* a set made directly on the DictDB of depth 2 has failed, after a set on
\* the DictDB of depth 1 below it had stored 300
C13_Witness ==
    /\ result.op = "dict_set"
    /\ Len(result.path) = 1
    /\ result.err = "DictDB depth mismatch"
    /\ Loc("dict", DictVarKey, <<IntV(1), IntV(257)>>, "int") \in DOMAIN mexp
    /\ ReadLoc(store, Loc("dict", DictVarKey, <<IntV(1), IntV(257)>>, "int")) = IntV(300)

\* the key sequences along which a DictDB is navigated
NavKeys == {<<>>} \cup DictPaths

\* C14: a read on a DictDB of depth > 1 succeeds with or without data at or
\* below the key and leaves the store as it was; the DictDB reached from a
\* DictDB constructed with depth d >= 1 after n < d such reads has depth
\* d - n, which lies between 1 and d; a read on a DictDB of depth 1 returns
\* a value, not a DictDB.
C14_NavigationIsPure ==
    /\ [][(result'.op = "dict_get" /\ StepDict.depth > 1)
              => (result'.err = "" /\ result'.ret.kind = "DictDB" /\ store' = store)]_vars
    /\ [][(result'.op = "dict_get" /\ StepDict.depth = 1)
              => result'.ret.kind = "int"]_vars
    /\ [](\A d \in 1..(DictDepth + 1) :
              \A ks \in NavKeys :
                  Len(ks) < d =>
                      LET m == Navigate(DictDB_init(DictVarKey, RootDB, "int", d), ks)
                      IN  m.err = "" /\ m.depth = d - Len(ks) /\ m.depth \in 1..d)

\* a read on the DictDB of depth 2 has returned a DictDB of depth 1 while
\* the store holds no entry at all
C14_Witness ==
    /\ result.op = "dict_get"
    /\ result.path = <<IntV(257)>>
    /\ result.err = ""
    /\ result.ret.kind = "DictDB"
    /\ result.ret.n = 1
    /\ DOMAIN store = {}

\* key in DictDB(...)[path[1]]...[path[n-1]] for the location's key path
ContainsLoc(st, loc) ==
    DictDB_contains(st, LeafDict(loc.var_key, Len(loc.path), loc.path, loc.t),
                    Last(loc.path))

\* C15: a remove/delete on a DictDB of depth 1 succeeds; afterwards get of
\* the key returns the zero value and contains is false; get and contains of
\* every other key of that DictDB and of the DictDBs beside it are as
\* before; removing a key that is not contained changes nothing.
C15_DeleteErasesExactlyOne ==
    [][(result'.op = "dict_remove" /\ StepDict.depth = 1)
           => LET loc == Loc("dict", DictVarKey, result'.path, "int")
              IN  /\ result'.err = ""
                  /\ ReadLoc(store', loc) = get_default_value("int")
                  /\ ~ContainsLoc(store', loc)
                  /\ \A l \in DictLocs \ {loc} :
                         /\ ReadLoc(store', l) = ReadLoc(store, l)
                         /\ ContainsLoc(store', l) = ContainsLoc(store, l)
                  /\ ~ContainsLoc(store, loc) => store' = store]_vars

\* C16: on the DictDBs of depth 1, contains(k) is true exactly when the last
\* set or remove on k was a set (mexp holds the keys last set), also when
\* the value set is the zero value of the type, and then get(k) returns
\* what it returns for a key that is not contained.
C16_ContainsIffStored ==
    \A l \in DictLocs :
        /\ ContainsLoc(store, l) <=> l \in DOMAIN mexp
        /\ (l \in DOMAIN mexp /\ mexp[l] = get_default_value(l.t))
               => ReadLoc(store, l) = get_default_value(l.t)


---------------------------------------------------------------------------
(* Properties of VarDB (SpecVar).                                          *)

\* the zero value of each value type, as stated for get() before any set
ZeroValue(value_type) ==
    IF value_type = "int" THEN IntV(0)
    ELSE IF value_type = "str" THEN StrV(<<>>)
    ELSE IF value_type = "bool" THEN BoolV(FALSE)
    ELSE NoneV

\* the store keys whose value or presence differs between st1 and st2
ChangedKeys(st1, st2) ==
    {x \in DOMAIN st1 \cup DOMAIN st2 :
        ~(x \in DOMAIN st1 /\ x \in DOMAIN st2 /\ st1[x] = st2[x])}

\* C17: every VarDB reads the zero value of its type until it is set, the
\* value of its last set afterwards and the zero value again once removed,
\* whatever is done through the other VarDBs; a get returns what the VarDB
\* reads and changes nothing; a set or a remove changes at most one store key.
C17_ScalarSetGetRemove ==
    /\ [](\A l \in VarLocs :
              ReadLoc(store, l) = IF l \in DOMAIN mexp THEN mexp[l] ELSE ZeroValue(l.t))
    /\ [][result'.op = "var_get"
              => (/\ store' = store
                  /\ \E l \in VarLocs :
                         l.var_key = result'.arg /\ result'.ret = ReadLoc(store, l))]_vars
    /\ [][result'.op \in {"var_set", "var_remove"}
              => Cardinality(ChangedKeys(store, store')) <= 1]_vars


---------------------------------------------------------------------------
(* Properties of the codec and of the V2 framing (SpecCodec, SpecFrame).   *)

\* C18: for every value v of a value type T, encode_value(v) succeeds and
\* decode_object of the bytes under T gives v back; a bool encodes to the
\* single byte 00 or 01; an absent byte string decodes to the zero value of T.
C18_ValueCodecRoundTrip ==
    /\ probe.done =>
           /\ probe.out.enc.err = ""
           /\ probe.out.dec = probe.key
           /\ probe.key.kind = "bool" =>
                  probe.out.enc.b = (IF probe.key = BoolV(TRUE) THEN <<1>> ELSE <<0>>)
    /\ \A t \in ValueTypes :
           decode_object([found |-> FALSE, b |-> <<>>], t) = ZeroValue(t)

\* -129 went through the codec as the two bytes ff 7f
C18_Witness ==
    /\ probe.done
    /\ probe.key = IntV(-129)
    /\ probe.out.enc.b = <<255, 127>>
    /\ probe.out.dec = IntV(-129)

\* the big-endian bytes of a length below 2^24, without leading zero bytes
MinimalLength(n) ==
    IF n < 256 THEN <<n>>
    ELSE IF n < 65536 THEN <<n \div 256, n % 256>>
    ELSE <<n \div 65536, (n \div 256) % 256, n % 256>>

\* the reference framing of payload b
ReferenceFrame(b) ==
    IF Len(b) = 1 /\ b[1] < 128 THEN b
    ELSE IF Len(b) <= 55 THEN <<128 + Len(b)>> \o b
    ELSE <<128 + 55 + Len(MinimalLength(Len(b)))>> \o MinimalLength(Len(b)) \o b

\* C19: rlp_encode_bytes returns the reference framing of every payload: a
\* single byte below 0x80 unchanged, [0x80 + len] + payload for any other
\* payload of 0 to 55 bytes, [0x80 + 55 + len_of_len] + minimal big-endian
\* length + payload from 56 bytes on; the output is longer than the input
\* except for the single byte returned unchanged.
C19_FrameMatchesReference ==
    (probe.fn = "frame" /\ probe.done) =>
        LET b == probe.key.s
        IN  /\ probe.out = ReferenceFrame(b)
            /\ IF Len(b) = 1 /\ b[1] < 128 THEN probe.out = b
               ELSE Len(probe.out) > Len(b)
            /\ (Len(b) # 1 \/ b[1] >= 128) /\ Len(b) <= 55
                   => probe.out = <<128 + Len(b)>> \o b

\* a payload of 256 bytes was framed as b9 01 00 + payload
C19_Witness ==
    /\ probe.fn = "frame"
    /\ probe.done
    /\ Len(probe.key.s) = 256
    /\ SubSeq(probe.out, 1, 3) = <<185, 1, 0>>
    /\ Len(probe.out) = 259

\* whether byte string x is a proper prefix of byte string y
ProperPrefix(x, y) == Len(x) < Len(y) /\ SubSeq(y, 1, Len(x)) = x

\* C20: rlp_encode_bytes is injective and no frame is a proper prefix of
\* another frame; the concatenation of the frames of a sequence of encoded
\* keys differs from that of every other sequence.
C20_FramesSelfDelimiting ==
    (probe.fn = "path" /\ probe.done) =>
        /\ \A qs \in PathSeqs : qs # probe.key => FramePath(qs) # probe.out
        /\ Len(probe.key) = 1 =>
               \A y \in PathKeys :
                   y # probe.key[1] =>
                       /\ rlp_encode_bytes(y) # probe.out
                       /\ ~ProperPrefix(probe.out, rlp_encode_bytes(y))
                       /\ ~ProperPrefix(rlp_encode_bytes(y), probe.out)

\* the keys 80 and (empty) in a row were framed as 81 80 80
C20_Witness ==
    /\ probe.fn = "path"
    /\ probe.done
    /\ probe.key = <<(<<128>>), (<<>>)>>
    /\ probe.out = <<129, 128, 128>>


---------------------------------------------------------------------------
(* Properties of encode_key and of int_to_bytes (SpecEncodeKey, SpecInt).  *)

\* the four kinds of logical key
KeyKinds == {"int", "str", "Address", "bytes"}

\* C21: encode_key returns bytes exactly for a key of kind integer, string,
\* address or bytes and fails with an invalid-key error for None and for a
\* key of any other kind, a boolean included.
C21_EncodeKeyAcceptsFourKinds ==
    probe.done =>
        /\ (probe.out.err = "") <=> (probe.key.kind \in KeyKinds)
        /\ probe.out.err \in {"", "key is None", "Unsupported key type"}

\* a signed big-endian byte string that no shorter one can replace: its
\* first byte is not a mere sign extension of the second
NoSignExtension(b) ==
    Len(b) > 1 => /\ ~(b[1] = 0 /\ b[2] < 128)
                  /\ ~(b[1] = 255 /\ b[2] >= 128)

\* C22: int_to_bytes(n) decodes back to n and is the shortest such byte
\* string; for n = 0x80 * 256^i with i in 0..MaxPower, the encoding of -n
\* has i + 1 bytes and first byte 0x80, and the encoding of n has i + 2
\* bytes and starts with 00 80.
C22_MinimalTwosComplement ==
    /\ (probe.fn = "int" /\ probe.done) =>
           /\ probe.out # <<>>
           /\ bytes_to_int(probe.out) = probe.key.n
           /\ NoSignExtension(probe.out)
           /\ probe.out = big_int_to_bytes(BigInt(probe.key.n))
    /\ (probe.fn = "bigint" /\ probe.done) =>
           /\ big_bytes_to_int(probe.out) = probe.key
           /\ NoSignExtension(probe.out)
           /\ (probe.key.mag[1] = 128 /\ probe.key.neg) =>
                  (Len(probe.out) = probe.index + 1 /\ probe.out[1] = 128)
           /\ (probe.key.mag[1] = 128 /\ ~probe.key.neg) =>
                  (Len(probe.out) = probe.index + 2 /\ SubSeq(probe.out, 1, 2) = <<0, 128>>)

\* -(0x80 * 256^31) was encoded in 32 bytes, the first of them 0x80
C22_Witness ==
    /\ probe.fn = "bigint"
    /\ probe.done
    /\ probe.key.neg
    /\ probe.key.mag = <<128>> \o Fill(31, 0)
    /\ Len(probe.out) = 32
    /\ probe.out[1] = 128


---------------------------------------------------------------------------
(* Properties of region construction (SpecRegion).                         *)

\* the container tag of a class that has a region of its own
TagOf(container_cls) == IF container_cls = "ArrayDB" THEN <<0>> ELSE <<1>>

\* C23: an ArrayDB or DictDB built on the root store takes the region
\* [tag, V1 key] / [tag, V2 key]; built on a handle that is already
\* namespaced it takes the parent's region extended by the encoded key alone,
\* without a tag, ArrayDB as well as DictDB; for any other container class
\* the region request fails with the unsupported-container error.
C23_RegionConstruction ==
    probe.done =>
        LET parent == probe.index
            k == KeyPair(probe.key)
        IN  IF probe.fn \in {"ArrayDB", "DictDB"}
            THEN /\ probe.out.err = ""
                 /\ probe.out.db.v1
                        = parent.v1 \o (IF parent.is_root THEN TagOf(probe.fn) ELSE <<>>) \o k.v1
                 /\ probe.out.db.v2
                        = parent.v2 \o (IF parent.is_root THEN TagOf(probe.fn) ELSE <<>>) \o k.v2
            ELSE probe.out.err = "Unsupported container class"


---------------------------------------------------------------------------
(* Properties of the store states inside put and pop (SpecSteps).          *)

\* the length that store st holds for the region of a
LengthIn(st, a) == ArrayDB__get_size_from_db(st, a.db)

\* what the store holds under the element key of index i
ElementEntry(st, a, i) == db_get(st, a.db, KeyPair(IntV(i)))

\* the number of element keys stored in the region of a
StoredElements(st, a) ==
    Cardinality({i \in 0..(MaxAppends + 1) : ElementEntry(st, a, i).found})

\* the first write of put: the element, at the index of the current length
PutFirstWrite ==
    (probe.fn = "" /\ probe'.fn = "put") =>
        /\ probe'.index = LengthIn(store, arr[1])
        /\ LengthIn(store', arr[1]) = LengthIn(store, arr[1])
        /\ ElementEntry(store', arr[1], probe'.index)
               = [found |-> TRUE, b |-> encode_value(probe'.key).b]
        /\ \A i \in 0..(LengthIn(store, arr[1]) - 1) :
               ElementEntry(store', arr[1], i) = ElementEntry(store, arr[1], i)

\* the second write of put: the length, one more than before
PutSecondWrite ==
    (probe.fn = "put" /\ probe'.fn = "") =>
        /\ LengthIn(store', arr[1]) = LengthIn(store, arr[1]) + 1
        /\ \A i \in 0..(MaxAppends + 1) :
               ElementEntry(store', arr[1], i) = ElementEntry(store, arr[1], i)

\* the store between the two writes of put
BetweenPutWrites ==
    probe.fn = "put" =>
        LET n == LengthIn(store, arr[1])
        IN  /\ n = Len(hist[1])
            /\ n = probe.index
            /\ \A i \in 0..(n - 1) :
                   ArrayDB_get(store, arr[1].db, n, IntV(i), arr[1].value_type)
                       = [err |-> "", ret |-> hist[1][i + 1]]
            /\ \A i \in 0..(n - 1) : ElementEntry(store, arr[1], i).found
            /\ StoredElements(store, arr[1]) = n + 1

\* C24: put writes the element at the index of the current length before it
\* persists the incremented length; between the two writes the persisted
\* length is the one before the call, every index below it still holds its
\* previous element, and the persisted length does not exceed the number of
\* contiguous stored elements.
C24_AppendElementThenLength ==
    [](BetweenPutWrites) /\ [][PutFirstWrite /\ PutSecondWrite]_vars

\* a put under way on an array of two elements: the third element is stored
\* and the persisted length is still 2
C24_Witness ==
    /\ probe.fn = "put"
    /\ probe.index = 2
    /\ LengthIn(store, arr[1]) = 2
    /\ ElementEntry(store, arr[1], 2).found

\* the steps of pop: the read of the last element, the delete of its key,
\* the write of the length
PopStepsInOrder ==
    /\ (probe.fn = "" /\ probe'.fn = "pop") =>
           /\ store' = store
           /\ probe'.index = LengthIn(store, arr[1]) - 1
           /\ probe'.key = hist[1][Len(hist[1])]
    /\ (probe.fn = "pop" /\ ~probe.done /\ probe'.done) =>
           /\ ElementEntry(store, arr[1], probe.index).found
           /\ ~ElementEntry(store', arr[1], probe.index).found
           /\ LengthIn(store', arr[1]) = LengthIn(store, arr[1])
           /\ \A i \in 0..(probe.index - 1) :
                  ElementEntry(store', arr[1], i) = ElementEntry(store, arr[1], i)
    /\ (probe.fn = "pop" /\ probe'.fn = "") =>
           /\ probe.done
           /\ LengthIn(store', arr[1]) = LengthIn(store, arr[1]) - 1
           /\ LengthIn(store', arr[1]) = probe.index
           /\ result'.ret = probe.key
           /\ \A i \in 0..(MaxAppends + 1) :
                  ElementEntry(store', arr[1], i) = ElementEntry(store, arr[1], i)

\* the store between the delete and the length write of pop, and what an
\* ArrayDB constructed on it returns for its last index
BetweenPopWrites ==
    (probe.fn = "pop" /\ probe.done) =>
        LET n == LengthIn(store, arr[1])
            t == arr[1].value_type
            fresh == ArrayDB_init(store, arr[1].var_key, RootDB, t)
        IN  /\ n = StoredElements(store, arr[1]) + 1
            /\ fresh.size = n
            /\ ArrayDB_get(store, fresh.db, fresh.size, IntV(n - 1), t)
                   = [err |-> "", ret |-> get_default_value(t)]
            /\ (/\ arr[2] = fresh
                /\ result.op = "get"
                /\ result.inst = 2
                /\ result.arg = IntV(n - 1))
                   => (result.err = "" /\ result.ret = get_default_value(t))

\* C25: pop on a non-empty ArrayDB reads the element at length - 1, then
\* deletes that element's key, then persists length - 1; between the delete
\* and the length write the persisted length is one more than the number of
\* stored elements, and an ArrayDB constructed in that state returns the zero
\* value of its type for get(length - 1) and does not fail.
C25_PopReadDeleteLength ==
    [](BetweenPopWrites) /\ [][PopStepsInOrder]_vars

\* a pop of a two-element array has deleted key 1; a second ArrayDB built on
\* that store reports length 2 and its get(1) returned the zero value
C25_Witness ==
    /\ probe.fn = "pop"
    /\ probe.done
    /\ LengthIn(store, arr[1]) = 2
    /\ StoredElements(store, arr[1]) = 1
    /\ arr[2] = ArrayDB_init(store, arr[1].var_key, RootDB, arr[1].value_type)
    /\ result.op = "get"
    /\ result.inst = 2
    /\ result.arg = IntV(1)
    /\ result.err = ""
    /\ result.ret = get_default_value(arr[1].value_type)


---------------------------------------------------------------------------
(* Properties of the two key encodings within one region (SpecCross).      *)

\* C26: for keys k # k' of one kind (integer >= 0, string or bytes) the V1
\* encoding of k is not the V2 encoding of k', so in a region that holds the
\* entry written under V1 for k the lookup for k' does not return it.
C26_SchemesDoNotCross ==
    (probe.fn = "cross" /\ probe.key # probe.index /\ result.op = "dict-get") =>
        /\ get_encoded_key_v1(probe.key).b # get_encoded_key_v2(probe.index).b
        /\ result.err = ""
        /\ result.ret = get_default_value("int")


---------------------------------------------------------------------------
(* Properties of put_to_db / get_from_db (SpecWholesale).                  *)

NoLeaf == [kind |-> "no leaf", n |-> 0, s |-> <<>>]

\* the leaf of the Python container c at path (c[p1][p2]...), NoLeaf where
\* c has none: a dict is indexed by an equal key, a list by a position
RECURSIVE LeafAt(_, _)
LeafAt(c, path) ==
    IF path = <<>>
    THEN IF c.kind \in {"dict", "list"} THEN NoLeaf ELSE c
    ELSE IF c.kind = "dict"
    THEN IF \E i \in 1..Len(c.s) : c.s[i][1] = Head(path)
         THEN LeafAt(c.s[CHOOSE i \in 1..Len(c.s) : c.s[i][1] = Head(path)][2],
                     Tail(path))
         ELSE NoLeaf
    ELSE IF c.kind = "list"
    THEN IF Head(path).kind = "int" /\ Head(path).n \in 0..(Len(c.s) - 1)
         THEN LeafAt(c.s[Head(path).n + 1], Tail(path))
         ELSE NoLeaf
    ELSE NoLeaf

\* C27: after put_to_db(db, db_key, c), get_from_db(db, db_key, *path,
\* value_type=T) returns the leaf of c at path for every leaf path of c and
\* the zero value of T for a path at which c has no leaf (so what is written
\* for one path does not change what is read at another).
C27_WholesaleRoundTrip ==
    (probe.fn = "put_to_db" /\ probe.done /\ result.op = "get_from_db") =>
        /\ result.err = ""
        /\ result.ret = IF LeafAt(probe.key, result.path) = NoLeaf
                        THEN get_default_value(probe.index)
                        ELSE LeafAt(probe.key, result.path)


---------------------------------------------------------------------------
(* Properties of deploy pre-validation (SpecDeploy).                       *)

\* the try block is entered and runs up to the check of the generated
\* address
ReachesAddressCheck(params) ==
    /\ params.to.is_zero
    /\ params.has_data
    /\ params.data_is_dict
    /\ params.has_contentType
    /\ params.contentType # "application/tbears"
    /\ params.has_timestamp

\* C28: in pre-validation of a deploy transaction to the zero SCORE address
\* with a content type other than 'application/tbears', a generated SCORE
\* address that is already in use raises InvalidRequestException 'SCORE
\* address already in use', which the except clause around the block does
\* not catch; any other failure inside the block reaches the caller as
\* InvalidParamsException.
C28_AddressInUseIsNotConverted ==
    (probe.fn \in {"validate_deploy", "validate_new_score_address"} /\ probe.done) =>
        LET params == probe.key
            in_score_mapper == probe.index
            inner == new_score_address_try(params, in_score_mapper)
        IN  /\ (ReachesAddressCheck(params) /\ in_score_mapper
                /\ (probe.fn = "validate_deploy" => params.has_content))
                   => probe.out = Raise("InvalidRequestException",
                                        "SCORE address already in use")
            /\ (probe.fn = "validate_new_score_address" /\ params.to.is_zero
                /\ inner.raised # ""
                /\ inner.message # "SCORE address already in use")
                   => probe.out.raised = "InvalidParamsException"
            /\ probe.out.message = "SCORE address already in use"
                   => (ReachesAddressCheck(params) /\ in_score_mapper)

\* a complete deploy transaction to the zero address whose generated address
\* is in use was rejected with InvalidRequestException
C28_Witness ==
    /\ probe.fn = "validate_deploy"
    /\ probe.done
    /\ ReachesAddressCheck(probe.key)
    /\ probe.key.has_content
    /\ probe.index
    /\ probe.out.raised = "InvalidRequestException"
    /\ probe.out.message = "SCORE address already in use"


---------------------------------------------------------------------------
(* Properties of issuance (SpecIssue).                                     *)

\* the total supply less the balances of all accounts
SupplyLessBalances(ctx) == ctx.total_supply - SumOver(ctx.accounts, IssueAddresses)

\* one issue of result'.arg to the account result'.path[1]
IssueStep ==
    LET to == result'.path[1]
        amount == result'.arg.n
    IN  /\ result'.op = "issue"
        /\ IF amount > 0
           THEN /\ context'.accounts = [context.accounts EXCEPT ![to] = @ + amount]
                /\ context'.total_supply = context.total_supply + amount
           ELSE /\ context'.accounts = context.accounts
                /\ context'.total_supply = context.total_supply
        /\ SupplyLessBalances(context') = SupplyLessBalances(context)

\* C29: an issue of amount > 0 raises the balance of the receiving account
\* and the total supply by amount, an issue of amount <= 0 changes neither;
\* so the total supply less the sum of the balances keeps its initial value
\* over any sequence of issues.
C29_IssueConservesSupply ==
    [][probe.fn = "issue" => IssueStep]_vars

\* after at least two issues, the last of amount 2: the receiving account
\* holds more than 5 and the total supply more than 15
C29_Witness ==
    /\ probe.fn = "issue"
    /\ result.op = "issue"
    /\ result.arg.n = 2
    /\ context.event_logs >= 4
    /\ context.accounts[result.path[1]] > 5
    /\ context.total_supply > 15

=============================================================================
